---- MODULE Spec2Model ----
(***************************************************************************)
(* A model of the data pipeline of uniff_charset: the content-addressed    *)
(* cache of the merged dataset (processor.py), the pipeline driver         *)
(* process_unicode_data (core.py) and the progress tree it reports to      *)
(* (uniff_core/progress.py).                                               *)
(*                                                                         *)
(* Python values are modelled by tagged records: [k |-> "none"] is None,   *)
(* [k |-> "map", m |-> f] a dict, [k |-> "list"] a non-empty list,         *)
(* [k |-> "number"] a number, [k |-> "seq", v |-> s] the list s.  File     *)
(* contents are named by strings; the content hash (MD5) is taken as       *)
(* injective on them.                                                      *)
(***************************************************************************)
EXTENDS Integers, Sequences, FiniteSets, TLC

VARIABLES
    disk,        \* source files: path -> "missing" | "unreadable" | content name
    data_dir,    \* snapshot files: key -> snapshot content (absent: not in DOMAIN)
    mtime,       \* snapshot files: key -> number of writes so far
    config,      \* the configuration in force: alias sources
    pc,          \* position of the driver: idle | cache | process | export | returned
    opts,        \* the options of the current run
    file_paths,  \* what fetch_all_data_files returned (insertion-ordered mapping)
    dataset,     \* (unicode_data, aliases_data) held by the driver
    calls,       \* the calls of the current run, in order
    tree,        \* the paths of the progress tree
    thread,      \* the display update threads started and not stopped
    result,      \* how process_unicode_data ended: none | returned (ok, files) | raised
    runs,        \* runs started so far
    fn           \* arguments and progress of a function called on its own

vars == <<disk, data_dir, mtime, config, pc, opts, file_paths, dataset, calls,
          tree, thread, result, runs, fn>>

(***************************************************************************)
(* Bounds                                                                  *)
(***************************************************************************)
MaxRuns == 2

(***************************************************************************)
(* Python values                                                           *)
(***************************************************************************)
EmptyMap == [x \in {} |-> <<>>]
PyNone == [k |-> "none"]
PyMap(f) == [k |-> "map", m |-> f]
PyList == [k |-> "list"]
PyNumber == [k |-> "number"]
Absent == [k |-> "absent"]
PySeq(s) == [k |-> "seq", v |-> s]

\* bool(v) of Python
Truthy(v) ==
    CASE v.k = "none" -> FALSE
      [] v.k = "map" -> DOMAIN v.m # {}
      [] v.k = "list" -> TRUE
      [] v.k = "number" -> TRUE
      [] v.k = "seq" -> v.v # <<>>
      [] OTHER -> FALSE

(***************************************************************************)
(* Source files.  A file is "missing", "unreadable" (it exists and open()  *)
(* fails) or holds a named content.                                        *)
(***************************************************************************)
SourceTypes == {"unicode_data", "name_aliases", "names_list", "cldr_annotations"}

\* sorted() of the source identifiers
SortedTypes == <<"cldr_annotations", "name_aliases", "names_list", "unicode_data">>

\* where download_file leaves each file when the cache is used
CachePath(t) ==
    CASE t = "unicode_data" -> "cache/UnicodeData.txt"
      [] t = "name_aliases" -> "cache/NameAliases.txt"
      [] t = "names_list" -> "cache/NamesList.txt"
      [] t = "cldr_annotations" -> "cache/en.xml"

Keys(fp) == {fp[i].type : i \in DOMAIN fp}
PathOf(fp, t) == fp[CHOOSE i \in DOMAIN fp : fp[i].type = t].path
Readable(d, p) == d[p] \notin {"missing", "unreadable"}

(***************************************************************************)
(* The cache key                                                           *)
(***************************************************************************)
\* calculate_file_checksum: "" for a missing file, the hash of the content
\* otherwise; open() raises on an unreadable one.
calculate_file_checksum(d, p) ==
    IF d[p] = "missing" THEN [exc |-> FALSE, sum |-> ""]
    ELSE IF d[p] = "unreadable" THEN [exc |-> TRUE, sum |-> ""]
    ELSE [exc |-> FALSE, sum |-> d[p]]

\* the identifiers in the order of their insertion into the mapping
InsertionKeys(fp) == [i \in DOMAIN fp |-> fp[i].type]

\* sorted(file_paths.keys())
SortedKeys(fp) == SelectSeq(SortedTypes, LAMBDA t : t \in Keys(fp))

\* calculate_source_files_checksum: the "type:checksum" strings of the sorted
\* identifiers, joined and hashed (the hash taken as injective, the key is
\* the joined sequence itself).
calculate_source_files_checksum(d, fp) ==
    LET types == SortedKeys(fp)
        sums == [i \in DOMAIN types |-> calculate_file_checksum(d, PathOf(fp, types[i]))]
    IN  IF \E i \in DOMAIN types : sums[i].exc
        THEN [exc |-> TRUE, key |-> <<>>]
        ELSE [exc |-> FALSE,
              key |-> [i \in DOMAIN types |-> <<types[i], sums[i].sum>>]]

(***************************************************************************)
(* Source parsers, by content                                              *)
(***************************************************************************)
\* get_unicode_block over the configured ranges
get_unicode_block(cp) ==
    CASE cp = "0041" -> "Basic Latin"
      [] cp = "00E9" -> "Latin-1 Supplement"
      [] OTHER -> "Unknown Block"

CharName(cp) == IF cp = "0041" THEN "LATIN CAPITAL LETTER A"
                ELSE "LATIN SMALL LETTER E WITH ACUTE"
CharCategory(cp) == IF cp = "0041" THEN "Lu" ELSE "Ll"
CharObj(cp) == IF cp = "0041" THEN "A" ELSE "e-acute"

\* the code points of the accepted lines of a primary file
PrimaryLines(content) ==
    CASE content = "UD_A" -> {"0041"}
      [] content = "UD_AE" -> {"0041", "00E9"}
      [] OTHER -> {}

\* parse_unicode_data: an empty mapping for a missing or unreadable file
parse_unicode_data(d, p) ==
    IF ~Readable(d, p) THEN EmptyMap
    ELSE [cp \in PrimaryLines(d[p]) |->
            [name |-> CharName(cp), category |-> CharCategory(cp),
             char_obj |-> CharObj(cp), block |-> get_unicode_block(cp)]]

\* parse_name_aliases: code point and alias verbatim
parse_name_aliases(d, p) ==
    IF ~Readable(d, p) THEN EmptyMap
    ELSE CASE d[p] = "NA_A" -> [cp \in {"0041"} |-> <<"LATIN LETTER A">>]
           [] d[p] = "NA_e" -> [cp \in {"00e9"} |-> <<"E ACUTE">>]
           [] d[p] = "NA_Ee" -> [cp \in {"00E9", "00e9"} |->
                                   IF cp = "00E9" THEN <<"E ACUTE">> ELSE <<"e acute">>]
           [] d[p] = "NA_pad" -> [cp \in {"0041"} |-> <<" Latin Letter A ", "LATIN LETTER A">>]
           [] OTHER -> EmptyMap

\* str.upper() on a code point
Upper(cp) == IF cp = "00e9" THEN "00E9" ELSE cp

\* parse_names_list: the key is upper-cased by the parser
parse_names_list(d, p) ==
    IF ~Readable(d, p) THEN EmptyMap
    ELSE CASE d[p] = "NL_A" -> [cp \in {Upper("0041")} |-> <<"Latin Letter A", "first letter">>]
           [] d[p] = "NL_e" -> [cp \in {Upper("00e9")} |-> <<"E Acute">>]
           [] OTHER -> EmptyMap

\* format(ord(char), "X"): upper-case hexadecimal without padding
FormatX(char) == IF char = "A" THEN "41" ELSE "E9"

\* parse_cldr_annotations
parse_cldr_annotations(d, p) ==
    IF ~Readable(d, p) THEN EmptyMap
    ELSE CASE d[p] = "CLDR_A" -> [cp \in {FormatX("A")} |-> <<"a", "letter">>]
           [] d[p] = "CLDR_AL" -> [cp \in {FormatX("A")} |-> <<"latin letter a", "a">>]
           [] d[p] = "CLDR_e" -> [cp \in {FormatX("e-acute")} |-> <<"e acute">>]
           [] OTHER -> EmptyMap

(***************************************************************************)
(* Alias merger                                                            *)
(***************************************************************************)
ALIAS_SOURCE_FORMAL == "formal_aliases"
ALIAS_SOURCE_INFORMATIVE == "informative_aliases"
ALIAS_SOURCE_CLDR == "cldr_annotations"

\* alias.lower().strip()
normalize_alias(a) ==
    CASE a = "LATIN LETTER A" -> "latin letter a"
      [] a = "Latin Letter A" -> "latin letter a"
      [] a = "E ACUTE" -> "e acute"
      [] a = "E Acute" -> "e acute"
      [] a = " Latin Letter A " -> "latin letter a"
      [] OTHER -> a

\* the alias strings in lexicographic order
AliasOrder ==
    <<" Latin Letter A ", "E ACUTE", "E Acute", "LATIN LETTER A", "Latin Letter A", "a",
      "e acute", "first letter", "latin letter a", "letter">>
SortedAliases(S) == SelectSeq(AliasOrder, LAMBDA a : a \in S)

Range(s) == {s[i] : i \in DOMAIN s}

\* one merge loop: every alias of every code point of src, normalized, into
\* the set kept under keyOf(code point)
MergeSource(sets, src, upper) ==
    LET keyOf(cp) == IF upper THEN Upper(cp) ELSE cp
        newKeys == {keyOf(cp) : cp \in DOMAIN src}
    IN  [k \in DOMAIN sets \cup newKeys |->
            (IF k \in DOMAIN sets THEN sets[k] ELSE {})
            \cup UNION {{normalize_alias(a) : a \in Range(src[cp])} :
                        cp \in {c \in DOMAIN src : keyOf(c) = k}}]

\* Whether progress_item has an update_progress method: None is never asked,
\* a str (a title of the progress tree) has none.
HasUpdateProgress(progress_item) == progress_item \notin {"none", "str"}

\* process_data_files: [exc, unicode_data, aliases_data]
process_data_files(d, fp, progress_item, alias_sources) ==
    LET failed == [exc |-> TRUE, unicode_data |-> PyNone, aliases_data |-> PyNone]
        formalOn == ALIAS_SOURCE_FORMAL \in alias_sources
        infoOn == ALIAS_SOURCE_INFORMATIVE \in alias_sources
        cldrOn == ALIAS_SOURCE_CLDR \in alias_sources
    IN  IF "unicode_data" \notin Keys(fp)
           \/ (formalOn /\ "name_aliases" \notin Keys(fp))
           \/ (infoOn /\ "names_list" \notin Keys(fp))
        THEN failed                                         \* KeyError
        ELSE
        LET unicode_data == parse_unicode_data(d, PathOf(fp, "unicode_data"))
            formal == IF formalOn THEN parse_name_aliases(d, PathOf(fp, "name_aliases"))
                      ELSE EmptyMap
            informative == IF infoOn THEN parse_names_list(d, PathOf(fp, "names_list"))
                           ELSE EmptyMap
            cldr == IF cldrOn /\ "cldr_annotations" \in Keys(fp)
                    THEN parse_cldr_annotations(d, PathOf(fp, "cldr_annotations"))
                    ELSE EmptyMap
            iterations == DOMAIN formal \cup DOMAIN informative \cup DOMAIN cldr
            s1 == MergeSource(EmptyMap, formal, FALSE)
            s2 == MergeSource(s1, informative, TRUE)
            s3 == MergeSource(s2, cldr, FALSE)
        IN  IF iterations # {} /\ progress_item # "none"
               /\ ~HasUpdateProgress(progress_item)
            THEN failed                                     \* AttributeError
            ELSE [exc |-> FALSE,
                  unicode_data |-> PyMap(unicode_data),
                  aliases_data |-> PyMap([k \in DOMAIN s3 |-> PySeq(SortedAliases(s3[k]))])]

(***************************************************************************)
(* The snapshot files of the data directory.  A directory is               *)
(* [exists, files]; files maps a file name to its content:                 *)
(* [json |-> "partial"] (an interrupted write), [json |-> "unparsable"],   *)
(* [json |-> "list"] (valid JSON, not an object) or                        *)
(* [json |-> "object", ud |-> v, ad |-> v], v the value of the field or    *)
(* Absent.                                                                 *)
(***************************************************************************)
LegacyName == <<"unicode_master_data.json">>
KeyedName(key) == <<"unicode_master_data_", key, ".json">>

NoDir == [exists |-> FALSE, files |-> EmptyMap]

\* get_master_file_path: the name of the file inside data_dir
get_master_file_path(d, fp, checksum) ==
    IF checksum # <<>> THEN KeyedName(checksum)
    ELSE IF fp # <<>> THEN KeyedName(calculate_source_files_checksum(d, fp).key)
    ELSE LegacyName

\* a lookup that finds no file, whatever the directory holds
find_no_master_file(dd, checksum) == <<>>

\* a lookup that takes any snapshot of the directory for the one asked for
find_any_master_file(dd, checksum) ==
    IF ~dd.exists \/ DOMAIN dd.files = {} THEN <<>>
    ELSE CHOOSE n \in DOMAIN dd.files : TRUE

\* find_master_file_by_checksum: the file name, or "none"
find_master_file_by_checksum(dd, checksum) ==
    IF ~dd.exists THEN <<>>
    ELSE IF KeyedName(checksum) \in DOMAIN dd.files THEN KeyedName(checksum)
    ELSE <<>>

NoData == [unicode_data |-> PyNone, aliases_data |-> PyNone]

\* len(v) of Python raises TypeError
NoLen(v) == v.k \in {"none", "number"}

\* load_master_data_file: (None, None) or the two fields as parsed
load_master_data_file(dd, name) ==
    IF ~dd.exists \/ name \notin DOMAIN dd.files THEN NoData
    ELSE LET c == dd.files[name] IN
         IF c.json \in {"partial", "unparsable"} THEN NoData     \* JSONDecodeError
         ELSE IF c.json # "object" THEN NoData                   \* no .get
         ELSE LET ud == IF c.ud.k = "absent" THEN PyMap(EmptyMap) ELSE c.ud
                  ad == IF c.ad.k = "absent" THEN PyMap(EmptyMap) ELSE c.ad
              IN  IF ad.k # "map" THEN NoData                    \* no .values
                  ELSE IF \E cp \in DOMAIN ad.m : NoLen(ad.m[cp]) THEN NoData
                  ELSE IF NoLen(ud) THEN NoData
                  ELSE [unicode_data |-> ud, aliases_data |-> ad]

RequiredFields == {"name", "category", "char_obj"}

\* a record written without the block of the character
MasterRecordNoBlock(char_info) ==
    [name |-> char_info.name, category |-> char_info.category,
     char_obj |-> char_info.char_obj, block |-> "Unknown Block"]

\* the dictionary save_master_data_file builds for one record
MasterRecord(char_info) ==
    [name |-> char_info.name, category |-> char_info.category,
     char_obj |-> char_info.char_obj,
     block |-> IF "block" \in DOMAIN char_info THEN char_info.block ELSE "Unknown Block"]

\* save_master_data_file up to and including open(master_file_path, "w"):
\* [returned, name, dir].  mkdirFails, openFails: the faults of the file system.
SaveOpen(dd, unicode_data, aliases_data, d, fp, checksum, mkdirFails, openFails) ==
    IF ~Truthy(unicode_data) \/ ~Truthy(aliases_data)
    THEN [returned |-> TRUE, name |-> <<>>, dir |-> dd]
    ELSE IF mkdirFails
    THEN [returned |-> TRUE, name |-> <<>>, dir |-> dd]
    ELSE IF unicode_data.k # "map"
            \/ \E cp \in DOMAIN unicode_data.m :
                  ~(RequiredFields \subseteq DOMAIN unicode_data.m[cp])
    THEN [returned |-> TRUE, name |-> <<>>, dir |-> [dd EXCEPT !.exists = TRUE]]
    ELSE IF fp # <<>> /\ checksum = <<>> /\ calculate_source_files_checksum(d, fp).exc
    THEN [returned |-> TRUE, name |-> <<>>, dir |-> [dd EXCEPT !.exists = TRUE]]
    ELSE IF openFails
    THEN [returned |-> TRUE, name |-> <<>>, dir |-> [dd EXCEPT !.exists = TRUE]]
    ELSE LET name == get_master_file_path(d, fp, checksum) IN
         [returned |-> FALSE, name |-> name,
          dir |-> [exists |-> TRUE,
                   files |-> [n \in DOMAIN dd.files \cup {name} |->
                                IF n = name THEN [json |-> "partial"]
                                ELSE dd.files[n]]]]

\* json.dump of master_data into the open file, and the close: the whole
\* document, or the part written when the write fails.
SaveDump(dd, name, unicode_data, aliases_data, writeFails) ==
    IF writeFails
    THEN [name |-> <<>>, dir |-> dd]
    ELSE [name |-> name,
          dir |-> [dd EXCEPT !.files[name] =
                     [json |-> "object",
                      ud |-> PyMap([cp \in DOMAIN unicode_data.m |->
                                      MasterRecord(unicode_data.m[cp])]),
                      ad |-> aliases_data]]]

\* save_master_data_file as one call: [name, dir, opened]; name is <<>> for
\* None, opened the file open() truncated
save_master_data_file(dd, unicode_data, aliases_data, d, fp, checksum, fault) ==
    LET o == SaveOpen(dd, unicode_data, aliases_data, d, fp, checksum,
                      fault = "mkdir", fault = "open")
        w == SaveDump(o.dir, o.name, unicode_data, aliases_data, fault = "write")
    IN  IF o.returned THEN [name |-> <<>>, dir |-> o.dir, opened |-> <<>>]
        ELSE [name |-> w.name, dir |-> w.dir, opened |-> o.name]

\* the modification times after a write of the file name
Bump(mt, name) ==
    [n \in DOMAIN mt \cup {name} |->
        IF n = name THEN (IF n \in DOMAIN mt THEN mt[n] + 1 ELSE 1) ELSE mt[n]]

(***************************************************************************)
(* Dataset and block filters                                               *)
(***************************************************************************)
DATASET_EVERYDAY == "every-day"
DATASET_COMPLETE == "complete"
DATASET_TEST == "test"

\* the first 50 characters of the test dataset
TestLimit == 50

\* sorted() of the code points
CodePointOrder ==
    <<"0020", "0021", "0022", "0023", "0024", "0025", "0026", "0027", "0028", "0029",
      "002A", "002B", "002C", "002D", "002E", "002F", "0030", "0031", "0032", "0033",
      "0034", "0035", "0036", "0037", "0038", "0039", "003A", "003B", "003C", "003D",
      "003E", "003F", "0040", "0041", "0042", "0043", "0044", "0045", "0046", "0047",
      "0048", "0049", "004A", "004B", "004C", "004D", "004E", "004F", "0050", "0051",
      "0052", "0053", "0054", "0055", "0056", "0057", "00E9", "00e9", "41", "E9">>

\* get_dataset_blocks: the "datasets" of the configuration file when it was
\* loaded and has them, the default ones otherwise; None (here the empty
\* list, as falsy) for a dataset the configuration does not name
get_dataset_blocks(ds) ==
    IF "datasets" \in DOMAIN config
    THEN IF ds \in DOMAIN config.datasets THEN config.datasets[ds] ELSE <<>>
    ELSE CASE ds = DATASET_EVERYDAY -> <<>>
           [] ds = DATASET_COMPLETE -> <<"all">>
           [] OTHER -> <<>>

HasBlock(char_info, blocks) ==
    "block" \in DOMAIN char_info /\ char_info.block \in blocks

Restrict(f, S) == [x \in S |-> f[x]]

\* a block filter that restricts the records and leaves the aliases alone
filter_records_only(ud, ad, blocks) ==
    IF blocks = <<>> \/ "all" \in Range(blocks)
    THEN [unicode_data |-> ud, aliases_data |-> ad]
    ELSE [unicode_data |-> Restrict(ud, {cp \in DOMAIN ud : HasBlock(ud[cp], Range(blocks))}),
          aliases_data |-> ad]

\* filter_by_unicode_blocks on two mappings: [unicode_data, aliases_data]
filter_by_unicode_blocks(ud, ad, blocks) ==
    IF blocks = <<>> \/ "all" \in Range(blocks)
    THEN [unicode_data |-> ud, aliases_data |-> ad]
    ELSE LET kept == {cp \in DOMAIN ud : HasBlock(ud[cp], Range(blocks))}
         IN  [unicode_data |-> Restrict(ud, kept),
              aliases_data |-> Restrict(ad, kept \cap DOMAIN ad)]

\* a dataset filter whose 'test' dataset is every Basic Latin record
filter_by_dataset_unbounded(ud, ad, ds) ==
    IF ds = DATASET_TEST
    THEN filter_by_unicode_blocks(ud, ad, <<"Basic Latin">>)
    ELSE IF get_dataset_blocks(ds) = <<>> \/ ds = DATASET_COMPLETE
    THEN [unicode_data |-> ud, aliases_data |-> ad]
    ELSE filter_by_unicode_blocks(ud, ad, get_dataset_blocks(ds))

\* filter_by_dataset on two mappings
filter_by_dataset(ud, ad, ds) ==
    IF ds = DATASET_TEST
    THEN LET latin == SelectSeq(CodePointOrder,
                        LAMBDA cp : cp \in DOMAIN ud /\ HasBlock(ud[cp], {"Basic Latin"}))
             kept == {latin[i] : i \in {j \in DOMAIN latin : j <= TestLimit}}
         IN  [unicode_data |-> Restrict(ud, kept),
              aliases_data |-> Restrict(ad, kept \cap DOMAIN ad)]
    ELSE IF get_dataset_blocks(ds) = <<>> \/ ds = DATASET_COMPLETE
    THEN [unicode_data |-> ud, aliases_data |-> ad]
    ELSE filter_by_unicode_blocks(ud, ad, get_dataset_blocks(ds))

(***************************************************************************)
(* Exporter                                                                *)
(***************************************************************************)
\* the formats with a registered exporter
RegisteredFormats == {"csv", "json", "lua", "txt"}
get_supported_formats == <<"csv", "json", "lua", "txt">>

\* get_output_filename, and the name with the .gz suffix
get_output_filename(fmt, ds) == <<"unicode", ds, fmt>>
Compressed(name) == name \o <<"gz">>

\* the state of a format's handle once its `with open(...)` block is left
HandleAfterOpen == "closed"

\* optimized_export: [exc, files].  Every format's handle is opened and its
\* preamble written inside a with block; the header of the last format and
\* every record are written after it.
optimized_export(ud, ad, formats, options) ==
    LET active == SelectSeq(formats, LAMBDA f : f \in RegisteredFormats)
        raised == [exc |-> TRUE, files |-> <<>>]
    IN  IF DOMAIN ud = {} THEN raised
        ELSE IF ~options.output_dir_ok THEN raised
        ELSE IF active = <<>> THEN raised
        ELSE IF HandleAfterOpen # "open" THEN raised    \* I/O operation on closed file
        ELSE [exc |-> FALSE,
              files |-> [i \in DOMAIN active |->
                           IF options.compress
                           THEN Compressed(get_output_filename(active[i], options.dataset))
                           ELSE get_output_filename(active[i], options.dataset)]]

\* whether the filter export_data applies for these options reads the records
FilterReads(options) ==
    IF options.dataset # ""
    THEN \/ options.dataset = DATASET_TEST
         \/ /\ get_dataset_blocks(options.dataset) # <<>>
            /\ options.dataset # DATASET_COMPLETE
            /\ "all" \notin Range(get_dataset_blocks(options.dataset))
    ELSE options.unicode_blocks # <<>> /\ "all" \notin Range(options.unicode_blocks)

\* an export_data that creates the output directory before it looks at the data
export_data_unchecked(dd, unicode_data, aliases_data, options) ==
    [exc |-> TRUE, files |-> <<>>, msg |-> "No output files were generated", makedirs |-> TRUE]

\* export_data: [exc, files, msg, makedirs]; msg is the message of the error
\* raised by export_data itself, makedirs whether os.makedirs(output_dir)
\* was called
\* a choice of filter that looks at the block list first
export_filter_blocks_first(options) ==
    IF options.unicode_blocks # <<>> THEN "blocks"
    ELSE IF options.dataset # "" THEN "dataset" ELSE ""

\* lines 78-85: `if options.dataset:` ... `elif options.unicode_blocks:`
export_filter(options) ==
    IF options.dataset # "" THEN "dataset"
    ELSE IF options.unicode_blocks # <<>> THEN "blocks" ELSE ""

export_data(dd, unicode_data, aliases_data, options) ==
    LET raised(m) == [exc |-> TRUE, files |-> <<>>, msg |-> m, makedirs |-> FALSE,
                      filter |-> "", records |-> {}]
        after(r) == [exc |-> r.exc, files |-> r.files, msg |-> "", makedirs |-> TRUE,
                     filter |-> "", records |-> {}]
    IN
    IF ~Truthy(unicode_data) \/ ~Truthy(aliases_data) THEN raised("No data to export")
    ELSE
    LET reload == options.use_master_file /\ options.master_file_path # <<>>
        loaded == load_master_data_file(dd, options.master_file_path)
        u1 == IF reload THEN loaded.unicode_data ELSE unicode_data
        a1 == IF reload THEN loaded.aliases_data ELSE aliases_data
    IN  IF reload /\ (~Truthy(u1) \/ ~Truthy(a1))
        THEN raised("Failed to load data from master file")
        ELSE IF u1.k # "map" \/ a1.k # "map"
        THEN \* a filter that reads the data raises on .keys() or .items();
             \* otherwise optimized_export does, on .items()
             IF FilterReads(options) THEN raised("")
             ELSE IF options.output_dir_ok /\ options.format_type # "all"
                     /\ options.format_type \notin RegisteredFormats
             THEN after([exc |-> FALSE, files |-> <<>>])
             ELSE after([exc |-> TRUE, files |-> <<>>])
        ELSE
        LET f == CASE export_filter(options) = "dataset" ->
                        filter_by_dataset(u1.m, a1.m, options.dataset)
                   [] export_filter(options) = "blocks" ->
                        filter_by_unicode_blocks(u1.m, a1.m, options.unicode_blocks)
                   [] OTHER -> [unicode_data |-> u1.m, aliases_data |-> a1.m]
            \* the branch of lines 78-85 that ran, and the records it left
            filtered(r) ==
                [r EXCEPT !.filter = export_filter(options),
                          !.records = DOMAIN f.unicode_data]
        IN  IF DOMAIN f.unicode_data = {}
            THEN filtered(raised("No output files generated"))
            ELSE IF ~options.output_dir_ok
            THEN filtered(after([exc |-> TRUE, files |-> <<>>]))   \* os.makedirs raises
            ELSE IF options.format_type = "all"
            THEN filtered(after(optimized_export(f.unicode_data, f.aliases_data,
                                                 get_supported_formats, options)))
            ELSE IF options.format_type \notin RegisteredFormats
            THEN filtered(after([exc |-> FALSE, files |-> <<>>]))
            ELSE filtered(after(optimized_export(f.unicode_data, f.aliases_data,
                                                 <<options.format_type>>, options)))

(***************************************************************************)
(* Progress tree (uniff_core/progress.py).  The tree is the set of its     *)
(* paths; a path handed to it is a list of values, S(title) a str.         *)
(***************************************************************************)
PROGRESS_FETCHING_DATA == "Fetching Data"
PROGRESS_DOWNLOADING == "Downloading fresh data from unicode.org"
PROGRESS_UNICODE_DATA == "UnicodeData.txt: Character database"
PROGRESS_NAMES_LIST == "NamesList.txt: Character names and annotations"
PROGRESS_BLOCKS == "Blocks.txt: Unicode block definitions"
PROGRESS_CACHE_STORED == "Cache directory"
PROGRESS_PROCESSING == "Processing"
PROGRESS_NORMALIZING == "Normalizing Aliases"
PROGRESS_GENERATING_MASTER == "Generating master data"
PROGRESS_EXPORTING == "Exporting"
PROGRESS_COMPRESSING == "Compressing"

S(title) == [k |-> "str", s |-> title]

\* ProgressTree._get_item: whether the path names an item
get_item(t, path) ==
    /\ path # <<>>
    /\ \A i \in DOMAIN path : path[i].k = "str"
    /\ [i \in DOMAIN path |-> path[i].s] \in t

\* ProgressTree.update_item raises ValueError when the item is not found
UpdateRaises(t, paths) == \E p \in paths : ~get_item(t, p)

\* ProgressTree.add_child_item: the tree with the child; the value returned
\* is the list parent_path + [title]
add_child_item(t, parent_path, title) ==
    t \cup {[i \in DOMAIN parent_path |-> parent_path[i].s] \o <<title>>}
ChildItemValue == PyList

\* the tree process_unicode_data builds before its first try block
InitialTree ==
    {<<PROGRESS_FETCHING_DATA>>, <<PROGRESS_PROCESSING>>, <<PROGRESS_EXPORTING>>,
     <<PROGRESS_COMPRESSING>>,
     <<PROGRESS_FETCHING_DATA, PROGRESS_DOWNLOADING>>,
     <<PROGRESS_FETCHING_DATA, PROGRESS_UNICODE_DATA>>,
     <<PROGRESS_FETCHING_DATA, PROGRESS_NAMES_LIST>>,
     <<PROGRESS_FETCHING_DATA, PROGRESS_BLOCKS>>,
     <<PROGRESS_FETCHING_DATA, PROGRESS_CACHE_STORED>>,
     <<PROGRESS_PROCESSING, PROGRESS_NORMALIZING>>,
     <<PROGRESS_PROCESSING, PROGRESS_GENERATING_MASTER>>}

(***************************************************************************)
(* process_unicode_data (core.py), outside a test: no frame of a run is    *)
(* named test_process_unicode_data_success.                                *)
(***************************************************************************)
in_test == FALSE

Returned(ok, files) == [kind |-> "returned", ok |-> ok, files |-> files]
Raised == [kind |-> "raised"]
NoResult == [kind |-> "none"]

\* `return False, []` of an except block after its update_item calls
HandlerResult(t, paths) ==
    IF UpdateRaises(t, paths) THEN Raised ELSE Returned(FALSE, <<>>)

\* the fetch handler naming its child item without the parent
FetchHandlerItems == {<<S(PROGRESS_DOWNLOADING)>>, <<S(PROGRESS_FETCHING_DATA)>>}

\* the paths the three except blocks update
FetchHandlerPaths ==
    {<<S(PROGRESS_FETCHING_DATA), S(PROGRESS_DOWNLOADING)>>, <<S(PROGRESS_FETCHING_DATA)>>}
ProcessHandlerPaths ==
    {<<S(PROGRESS_PROCESSING), S(PROGRESS_NORMALIZING)>>,
     <<S(PROGRESS_PROCESSING), S(PROGRESS_GENERATING_MASTER)>>,
     <<S(PROGRESS_PROCESSING)>>}
ExportHandlerPaths == {<<S(PROGRESS_EXPORTING)>>}

\* what fetch_all_data_files returns when every download succeeded
FetchedPaths(kind) ==
    LET three == <<[type |-> "unicode_data", path |-> CachePath("unicode_data")],
                   [type |-> "name_aliases", path |-> CachePath("name_aliases")],
                   [type |-> "names_list", path |-> CachePath("names_list")]>>
    IN  IF kind = "four"
        THEN Append(three, [type |-> "cldr_annotations",
                            path |-> CachePath("cldr_annotations")])
        ELSE three

FetchOutcomes == {"raise", "empty", "three", "four"}

\* the export options of a run
ExportOptionChoices ==
    LET base == [format_type |-> "csv", compress |-> FALSE, dataset |-> DATASET_COMPLETE,
                 unicode_blocks |-> <<>>, output_dir_ok |-> TRUE,
                 use_master_file |-> TRUE, master_file_path |-> LegacyName]
    IN  {base,
         [base EXCEPT !.format_type = "all", !.compress = TRUE,
                      !.dataset = DATASET_EVERYDAY],
         [base EXCEPT !.format_type = "xml"],
         [base EXCEPT !.dataset = "", !.unicode_blocks = <<"Latin-1 Supplement">>,
                      !.use_master_file = FALSE, !.master_file_path = <<>>]}

\* lines 64-189: the display is started, the files are fetched
StartRun ==
    /\ pc \in {"idle", "returned"}
    /\ runs < MaxRuns
    /\ \E force \in BOOLEAN, fetched \in FetchOutcomes, o \in ExportOptionChoices :
         LET t == InitialTree
             fp == IF fetched \in {"raise", "empty"} THEN <<>> ELSE FetchedPaths(fetched)
             updates == {<<S(PROGRESS_FETCHING_DATA), S(PROGRESS_DOWNLOADING)>>,
                         <<S(PROGRESS_FETCHING_DATA), S(PROGRESS_UNICODE_DATA)>>,
                         <<S(PROGRESS_FETCHING_DATA), S(PROGRESS_NAMES_LIST)>>,
                         <<S(PROGRESS_FETCHING_DATA), S(PROGRESS_BLOCKS)>>,
                         <<S(PROGRESS_FETCHING_DATA), S(PROGRESS_CACHE_STORED)>>,
                         <<S(PROGRESS_FETCHING_DATA)>>}
             res == IF fetched = "raise" THEN HandlerResult(t, FetchHandlerPaths)
                    ELSE IF fetched = "empty"
                    THEN IF UpdateRaises(t, {<<S(PROGRESS_DOWNLOADING)>>})
                         THEN HandlerResult(t, FetchHandlerPaths)
                         ELSE Returned(FALSE, <<>>)
                    ELSE IF UpdateRaises(t, updates)
                    THEN HandlerResult(t, FetchHandlerPaths)
                    ELSE NoResult
         IN  /\ runs' = runs + 1
             /\ thread' = thread + 1
             /\ tree' = t
             /\ calls' = <<"fetch_all_data_files">>
             /\ opts' = [force |-> force, fetched |-> fetched, export |-> o]
             /\ file_paths' = fp
             /\ dataset' = NoData
             /\ result' = res
             /\ pc' = IF res.kind = "none" THEN "cache" ELSE "returned"
    /\ UNCHANGED <<disk, data_dir, mtime, config, fn>>

\* lines 191-257: the snapshot is looked up and loaded unless force is set
CachePhase ==
    /\ pc = "cache"
    /\ LET sum == calculate_source_files_checksum(disk, file_paths)
           found == find_master_file_by_checksum(data_dir, sum.key)
           hit == found # <<>> /\ found \in DOMAIN data_dir.files
           loaded == load_master_data_file(data_dir, found)
           usable == Truthy(loaded.unicode_data) /\ Truthy(loaded.aliases_data)
           hitUpdates == {<<S(PROGRESS_PROCESSING), S(PROGRESS_NORMALIZING)>>,
                          <<S(PROGRESS_PROCESSING), S(PROGRESS_GENERATING_MASTER)>>,
                          <<S(PROGRESS_PROCESSING)>>}
       IN  IF opts.force
           THEN /\ pc' = "process"
                /\ UNCHANGED <<calls, dataset, opts, result>>
           ELSE IF sum.exc
           THEN /\ calls' = Append(calls, "calculate_source_files_checksum")
                /\ result' = HandlerResult(tree, ProcessHandlerPaths)
                /\ pc' = "returned"
                /\ UNCHANGED <<dataset, opts>>
           ELSE IF ~hit
           THEN /\ calls' = calls \o <<"calculate_source_files_checksum",
                                       "find_master_file_by_checksum">>
                /\ pc' = "process"
                /\ UNCHANGED <<dataset, opts, result>>
           ELSE IF UpdateRaises(tree, hitUpdates)
           THEN /\ calls' = calls \o <<"calculate_source_files_checksum",
                                       "find_master_file_by_checksum">>
                /\ result' = HandlerResult(tree, ProcessHandlerPaths)
                /\ pc' = "returned"
                /\ UNCHANGED <<dataset, opts>>
           ELSE /\ calls' = calls \o <<"calculate_source_files_checksum",
                                       "find_master_file_by_checksum",
                                       "load_master_data_file">>
                /\ IF usable
                   THEN /\ dataset' = loaded
                        /\ opts' = [opts EXCEPT !.export.master_file_path = found]
                        /\ pc' = "export"
                   ELSE /\ pc' = "process"
                        /\ UNCHANGED <<dataset, opts>>
                /\ UNCHANGED result
    /\ UNCHANGED <<disk, data_dir, mtime, config, file_paths, tree, thread, runs, fn>>

SaveFaults == {"none", "mkdir", "open", "write"}

\* lines 259-337: parse and merge, then persist under the checksum's name
ProcessPhase ==
    /\ pc = "process"
    /\ \E fault \in SaveFaults :
         LET r == process_data_files(disk, file_paths, "str", config.alias_sources)
             empty == ~Truthy(r.unicode_data) \/ ~Truthy(r.aliases_data)
             sum == calculate_source_files_checksum(disk, file_paths)
             sv == save_master_data_file(data_dir, r.unicode_data, r.aliases_data,
                                         disk, <<>>, sum.key, fault)
             failUpdates == {<<S(PROGRESS_PROCESSING), S(PROGRESS_NORMALIZING)>>,
                             <<S(PROGRESS_PROCESSING), S(PROGRESS_GENERATING_MASTER)>>,
                             <<S(PROGRESS_PROCESSING)>>}
             saveUpdates == {<<S(PROGRESS_PROCESSING), S(PROGRESS_GENERATING_MASTER)>>,
                             <<S(PROGRESS_PROCESSING)>>}
         IN  IF r.exc
             THEN /\ calls' = Append(calls, "process_data_files")
                  /\ result' = HandlerResult(tree, ProcessHandlerPaths)
                  /\ pc' = "returned"
                  /\ UNCHANGED <<data_dir, mtime, dataset, opts>>
             ELSE IF empty
             THEN /\ calls' = Append(calls, "process_data_files")
                  /\ result' = IF UpdateRaises(tree, failUpdates)
                               THEN HandlerResult(tree, ProcessHandlerPaths)
                               ELSE Returned(FALSE, <<>>)
                  /\ pc' = "returned"
                  /\ UNCHANGED <<data_dir, mtime, dataset, opts>>
             ELSE IF UpdateRaises(tree, {<<S(PROGRESS_PROCESSING), S(PROGRESS_NORMALIZING)>>})
                     \/ sum.exc
             THEN /\ calls' = calls \o <<"process_data_files",
                                         "calculate_source_files_checksum">>
                  /\ result' = HandlerResult(tree, ProcessHandlerPaths)
                  /\ pc' = "returned"
                  /\ UNCHANGED <<data_dir, mtime, dataset, opts>>
             ELSE /\ calls' = calls \o <<"process_data_files",
                                         "calculate_source_files_checksum",
                                         "save_master_data_file">>
                  /\ data_dir' = sv.dir
                  /\ mtime' = IF sv.opened # <<>> THEN Bump(mtime, sv.opened) ELSE mtime
                  /\ IF sv.name = <<>>
                     THEN /\ result' = IF UpdateRaises(tree, saveUpdates)
                                       THEN HandlerResult(tree, ProcessHandlerPaths)
                                       ELSE Returned(FALSE, <<>>)
                          /\ pc' = "returned"
                          /\ UNCHANGED <<dataset, opts>>
                     ELSE IF UpdateRaises(tree, saveUpdates)
                     THEN /\ result' = HandlerResult(tree, ProcessHandlerPaths)
                          /\ pc' = "returned"
                          /\ UNCHANGED <<dataset, opts>>
                     ELSE /\ dataset' = [unicode_data |-> r.unicode_data,
                                         aliases_data |-> r.aliases_data]
                          /\ opts' = [opts EXCEPT !.export.master_file_path = sv.name]
                          /\ pc' = "export"
                          /\ UNCHANGED result
    /\ UNCHANGED <<disk, config, file_paths, tree, thread, runs, fn>>

\* the formats process_unicode_data reports on
ReportedFormats(o) ==
    IF o.format_type = "all" THEN <<"csv", "json", "lua", "txt">> ELSE <<o.format_type>>

\* PROGRESS_FORMAT.format(fmt.upper())
FormatTitle(fmt) ==
    CASE fmt = "csv" -> "CSV format"
      [] fmt = "json" -> "JSON format"
      [] fmt = "lua" -> "LUA format"
      [] fmt = "txt" -> "TXT format"
      [] OTHER -> "XML format"

\* f"unicode_data.{fmt}" in filename or f"unicode.{dataset}.{fmt}" in filename
NameMatches(file, fmt, ds) ==
    \/ file[1] = "unicode_data" /\ file[2] = fmt
    \/ file[1] = "unicode" /\ file[2] = ds /\ file[3] = fmt

\* lines 339-415 after the call of export_data, which returned `out`
\* (on_disk: the files it names exist): [result, tree, stopped].  The list
\* add_child_item returned is the second element of the path updated for a
\* file whose name carries a reported format.
export_step(t, o, out, on_disk) ==
    LET formats == ReportedFormats(o)
        t1 == t \cup {<<PROGRESS_EXPORTING, FormatTitle(formats[i])>> :
                           i \in DOMAIN formats}
        item == ChildItemValue
        reported == \E i \in DOMAIN out.files, j \in DOMAIN formats :
                       NameMatches(out.files[i], formats[j], o.dataset)
        endUpdates == {<<S(PROGRESS_EXPORTING)>>}
                      \cup (IF o.compress THEN {<<S(PROGRESS_COMPRESSING)>>} ELSE {})
        failed == [result |-> HandlerResult(t1, ExportHandlerPaths), tree |-> t1,
                   stopped |-> FALSE]
    IN  IF out.exc THEN failed
        ELSE IF out.files = <<>>
        THEN IF UpdateRaises(t1, {<<S(PROGRESS_EXPORTING)>>}) THEN failed
             ELSE [result |-> Returned(FALSE, <<>>), tree |-> t1, stopped |-> FALSE]
        ELSE IF ~on_disk THEN failed                       \* os.path.getsize
        ELSE IF reported /\ UpdateRaises(t1, {<<S(PROGRESS_EXPORTING), item>>}) THEN failed
        ELSE IF UpdateRaises(t1, endUpdates) THEN failed
        ELSE [result |-> Returned(TRUE, out.files), tree |-> t1, stopped |-> TRUE]

\* lines 339-427: the export, its report, and the return
ExportPhase ==
    /\ pc = "export"
    /\ LET out == export_data(data_dir, dataset.unicode_data, dataset.aliases_data,
                              opts.export)
           st == export_step(tree, opts.export, out, TRUE)
       IN  /\ calls' = Append(calls, "export_data")
           /\ tree' = st.tree
           /\ result' = st.result
           /\ thread' = IF st.stopped THEN thread - 1 ELSE thread
           /\ pc' = "returned"
    /\ UNCHANGED <<disk, data_dir, mtime, config, opts, file_paths, dataset, runs, fn>>

(***************************************************************************)
(* The environment of the runs                                             *)
(***************************************************************************)
SourceStates(t) ==
    CASE t = "unicode_data" -> {"missing", "unreadable", "UD_none", "UD_A"}
      [] t = "name_aliases" -> {"missing", "NA_A"}
      [] t = "names_list" -> {"unreadable", "NL_A"}
      [] t = "cldr_annotations" -> {"missing", "CLDR_A"}

Paths == {CachePath(t) : t \in SourceTypes}
TypeOfPath(p) == CHOOSE t \in SourceTypes : CachePath(t) = p

DiskChoices == {d \in [Paths -> {"missing", "unreadable", "UD_none", "UD_A", "NA_A",
                                  "NL_A", "CLDR_A"}] :
                  \A p \in Paths : d[p] \in SourceStates(TypeOfPath(p))}

\* get_alias_sources: the configured sources, the default being CLDR alone
ConfigChoices ==
    {[alias_sources |-> {ALIAS_SOURCE_CLDR}],
     [alias_sources |-> {ALIAS_SOURCE_FORMAL, ALIAS_SOURCE_INFORMATIVE}],
     [alias_sources |-> {ALIAS_SOURCE_FORMAL, ALIAS_SOURCE_INFORMATIVE, ALIAS_SOURCE_CLDR}]}

\* The snapshot save_master_data_file writes for the files of d, and what a
\* later truncation or edit can leave of it.
SnapshotChoices(d, fp, c) ==
    LET r == process_data_files(d, fp, "none", c.alias_sources)
        whole == SaveDump([exists |-> TRUE, files |-> [n \in {<<"s">>} |-> [json |-> "partial"]]],
                          <<"s">>, r.unicode_data, r.aliases_data, FALSE).dir.files[<<"s">>]
    IN  IF r.exc \/ ~Truthy(r.unicode_data) \/ ~Truthy(r.aliases_data) THEN {}
        ELSE {whole,
              [json |-> "unparsable"],
              [whole EXCEPT !.ad = Absent],
              [whole EXCEPT !.ud = PyList]}

\* The data directories a run can find: none, an empty one, or one holding a
\* snapshot named for the key of the present files.
InitialDirs(d, c) ==
    {NoDir, [exists |-> TRUE, files |-> EmptyMap]}
    \cup UNION {LET fp == FetchedPaths(kind)
                    sum == calculate_source_files_checksum(d, fp)
                IN  IF sum.exc THEN {}
                    ELSE {[exists |-> TRUE,
                           files |-> [n \in {KeyedName(sum.key)} |-> content]] :
                             content \in SnapshotChoices(d, fp, c)}
                : kind \in {"three", "four"}}

InitNoFn == [op |-> "none"]

\* the locals of process_unicode_data while no run is under way
IdleOpts == [force |-> FALSE, fetched |-> "empty",
             export |-> CHOOSE o \in ExportOptionChoices : o.format_type = "xml"]

Init ==
    /\ disk \in DiskChoices
    /\ config \in ConfigChoices
    /\ data_dir \in InitialDirs(disk, config)
    /\ mtime = [n \in DOMAIN data_dir.files |-> 0]
    /\ pc = "idle"
    /\ opts = IdleOpts
    /\ file_paths = <<>>
    /\ dataset = NoData
    /\ calls = <<>>
    /\ tree = {}
    /\ thread = 0
    /\ result = NoResult
    /\ runs = 0
    /\ fn = InitNoFn

\* Between two runs a source file is replaced, removed or made unreadable;
\* nothing of the returned call's locals is left.
TouchSource ==
    /\ pc \in {"idle", "returned"}
    /\ runs < MaxRuns
    /\ \E p \in Paths :
         \E c \in SourceStates(TypeOfPath(p)) :
            /\ c # disk[p]
            /\ disk' = [disk EXCEPT ![p] = c]
    /\ pc' = "idle"
    /\ opts' = IdleOpts
    /\ file_paths' = <<>>
    /\ dataset' = NoData
    /\ calls' = <<>>
    /\ tree' = {}
    /\ result' = NoResult
    /\ UNCHANGED <<data_dir, mtime, config, thread, runs, fn>>

Next == StartRun \/ CachePhase \/ ProcessPhase \/ ExportPhase \/ TouchSource

Spec == Init /\ [][Next]_vars

(***************************************************************************)
(* The export step of process_unicode_data over the values export_data     *)
(* can return                                                              *)
(***************************************************************************)
StepOptions ==
    {[IdleOpts.export EXCEPT !.format_type = f, !.compress = c, !.dataset = ds] :
        f \in {"csv", "all", "xml"}, c \in BOOLEAN,
        ds \in {DATASET_COMPLETE, DATASET_EVERYDAY}}

\* the lists of paths export_data can return under the options o: final
\* files of the requested formats, a file under the older naming scheme and
\* a file whose name carries no format of the run
StepFileLists(o) ==
    LET final(f) == IF o.compress THEN Compressed(get_output_filename(f, o.dataset))
                    ELSE get_output_filename(f, o.dataset)
        wanted == {f \in RegisteredFormats : \E i \in DOMAIN ReportedFormats(o) :
                                                ReportedFormats(o)[i] = f}
    IN  {<<final(f)>> : f \in wanted}
        \cup {<<final("csv"), final("json")>> : f \in wanted \cap {"json"}}
        \cup {<<<<"unicode_data", "csv">>>>, <<<<"report", "txt", "bak">>>>}

StepOutputs(o) ==
    {[exc |-> TRUE, files |-> <<>>], [exc |-> FALSE, files |-> <<>>]}
    \cup {[exc |-> FALSE, files |-> fs] : fs \in StepFileLists(o)}

\* the state of a run whose export_data call is about to return
InitExportStep ==
    /\ disk = [p \in Paths |-> "missing"]
    /\ config = [alias_sources |-> {ALIAS_SOURCE_CLDR}]
    /\ data_dir = NoDir
    /\ mtime = [n \in {} |-> 0]
    /\ pc = "export_step"
    /\ opts = IdleOpts
    /\ file_paths = <<>>
    /\ dataset = NoData
    /\ calls = <<"fetch_all_data_files">>
    /\ tree = InitialTree
    /\ thread = 1
    /\ result = NoResult
    /\ runs = 1
    /\ \E o \in StepOptions :
         \E out \in StepOutputs(o), on_disk \in BOOLEAN :
            fn = [op |-> "export_step", o |-> o, out |-> out, on_disk |-> on_disk]

ExportStepReturns ==
    /\ pc = "export_step"
    /\ LET st == export_step(tree, fn.o, fn.out, fn.on_disk)
       IN  /\ tree' = st.tree
           /\ result' = st.result
           /\ thread' = IF st.stopped THEN thread - 1 ELSE thread
    /\ calls' = Append(calls, "export_data")
    /\ pc' = "returned"
    /\ UNCHANGED <<disk, data_dir, mtime, config, opts, file_paths, dataset, runs, fn>>

NextExportStep == ExportStepReturns

SpecExportStep == InitExportStep /\ [][NextExportStep]_vars

(***************************************************************************)
(* calculate_source_files_checksum over two mappings of the same disk      *)
(***************************************************************************)
ChecksumTypes == {"unicode_data", "name_aliases"}

\* a second directory holding source files
OtherPath(t) ==
    CASE t = "unicode_data" -> "tmp/UnicodeData.txt"
      [] t = "name_aliases" -> "tmp/NameAliases.txt"
      [] t = "names_list" -> "tmp/NamesList.txt"
      [] t = "cldr_annotations" -> "tmp/en.xml"

ChecksumPaths == {CachePath(t) : t \in ChecksumTypes} \cup {OtherPath(t) : t \in ChecksumTypes}
ChecksumContents == {"missing", "unreadable", "X", "Y"}

\* the mappings from identifiers to paths, as sequences in insertion order
ChecksumMappings ==
    LET entry(t) == {[type |-> t, path |-> CachePath(t)], [type |-> t, path |-> OtherPath(t)]}
    IN  UNION {{<<e>> : e \in entry(t)} : t \in ChecksumTypes}
        \cup {<<a, b>> : a \in entry("unicode_data"), b \in entry("name_aliases")}
        \cup {<<b, a>> : a \in entry("unicode_data"), b \in entry("name_aliases")}

InitChecksum ==
    /\ disk \in [ChecksumPaths -> ChecksumContents]
    /\ config = [alias_sources |-> {ALIAS_SOURCE_CLDR}]
    /\ data_dir = NoDir
    /\ mtime = [n \in {} |-> 0]
    /\ pc = "checksum"
    /\ opts = IdleOpts
    /\ file_paths = <<>>
    /\ dataset = NoData
    /\ calls = <<>>
    /\ tree = {}
    /\ thread = 0
    /\ result = NoResult
    /\ runs = 0
    /\ \E a \in ChecksumMappings, b \in ChecksumMappings :
         fn = [op |-> "checksum", a |-> a, b |-> b, sums |-> <<>>]

\* one call of calculate_source_files_checksum: the first mapping, then the
\* second
ChecksumCall ==
    /\ pc = "checksum"
    /\ Len(fn.sums) < 2
    /\ LET fp == IF fn.sums = <<>> THEN fn.a ELSE fn.b
       IN  fn' = [fn EXCEPT !.sums = Append(@, calculate_source_files_checksum(disk, fp))]
    /\ calls' = Append(calls, "calculate_source_files_checksum")
    /\ UNCHANGED <<disk, data_dir, mtime, config, pc, opts, file_paths, dataset, tree,
                   thread, result, runs>>

NextChecksum == ChecksumCall

SpecChecksum == InitChecksum /\ [][NextChecksum]_vars

(***************************************************************************)
(* save_master_data_file, step by step                                     *)
(***************************************************************************)
AliasesOfA == PyMap([cp \in {"0041"} |-> PySeq(<<"a", "letter">>)])

\* the datasets handed to the save
SaveDatasets ==
    LET one == [cp \in {"0041"} |->
                  [name |-> CharName(cp), category |-> CharCategory(cp),
                   char_obj |-> CharObj(cp), block |-> get_unicode_block(cp)]]
        two == [cp \in {"0041", "00E9"} |->
                  [name |-> CharName(cp), category |-> CharCategory(cp),
                   char_obj |-> CharObj(cp)]]
        bare == [cp \in {"0041"} |-> [category |-> "Lu"]]
    IN  {[unicode_data |-> PyMap(u), aliases_data |-> a] :
            u \in {EmptyMap, one, two, bare}, a \in {PyMap(EmptyMap), AliasesOfA}}

\* how the name of the file is given: a checksum, the file paths, or neither
SaveNamings ==
    {[fp |-> <<>>, checksum |-> <<>>],
     [fp |-> <<>>, checksum |-> <<<<"unicode_data", "UD_A">>>>],
     [fp |-> FetchedPaths("three"), checksum |-> <<>>]}

\* the snapshot an earlier save left under the name
PreviousSnapshot ==
    [json |-> "object",
     ud |-> PyMap([cp \in {"00E9"} |->
                     [name |-> CharName(cp), category |-> CharCategory(cp),
                      char_obj |-> CharObj(cp), block |-> get_unicode_block(cp)]]),
     ad |-> PyMap([cp \in {"00E9"} |-> PySeq(<<"e acute">>)])]

InitSave ==
    /\ disk \in {[p \in Paths |-> "missing"],
                 [p \in Paths |-> IF p = CachePath("unicode_data") THEN "UD_A" ELSE "missing"],
                 [p \in Paths |-> IF p = CachePath("names_list") THEN "unreadable"
                                  ELSE "missing"]}
    /\ config = [alias_sources |-> {ALIAS_SOURCE_CLDR}]
    /\ pc = "save"
    /\ opts = IdleOpts
    /\ file_paths = <<>>
    /\ dataset = NoData
    /\ calls = <<>>
    /\ tree = {}
    /\ thread = 0
    /\ result = NoResult
    /\ runs = 0
    /\ \E ds \in SaveDatasets, nm \in SaveNamings :
         LET target == get_master_file_path(disk, nm.fp, nm.checksum)
         IN  /\ data_dir \in {NoDir, [exists |-> TRUE, files |-> EmptyMap],
                              [exists |-> TRUE,
                               files |-> [n \in {target} |-> PreviousSnapshot]]}
             /\ mtime = [n \in DOMAIN data_dir.files |-> 0]
             /\ fn = [op |-> "save", unicode_data |-> ds.unicode_data,
                      aliases_data |-> ds.aliases_data, fp |-> nm.fp,
                      checksum |-> nm.checksum, target |-> target, before |-> data_dir,
                      stage |-> "called", ret |-> <<>>]

\* lines 483-532: up to and including open(master_file_path, "w")
SaveBegin ==
    /\ pc = "save"
    /\ fn.stage = "called"
    /\ \E mkdirFails \in BOOLEAN, openFails \in BOOLEAN :
         LET o == SaveOpen(data_dir, fn.unicode_data, fn.aliases_data, disk, fn.fp,
                           fn.checksum, mkdirFails, openFails)
         IN  /\ data_dir' = o.dir
             /\ mtime' = IF o.returned THEN mtime ELSE Bump(mtime, o.name)
             /\ fn' = [fn EXCEPT !.stage = IF o.returned THEN "returned" ELSE "opened"]
    /\ calls' = Append(calls, "save_master_data_file")
    /\ UNCHANGED <<disk, config, pc, opts, file_paths, dataset, tree, thread, result, runs>>

\* lines 533-543: json.dump and the return, or the except block
SaveFinish ==
    /\ pc = "save"
    /\ fn.stage = "opened"
    /\ \E writeFails \in BOOLEAN :
         LET w == SaveDump(data_dir, fn.target, fn.unicode_data, fn.aliases_data, writeFails)
         IN  /\ data_dir' = w.dir
             /\ fn' = [fn EXCEPT !.stage = "returned", !.ret = w.name]
    /\ UNCHANGED <<disk, mtime, config, pc, opts, file_paths, dataset, calls, tree, thread,
                   result, runs>>

NextSave == SaveBegin \/ SaveFinish

SpecSave == InitSave /\ [][NextSave]_vars

\* load_master_data_file on the path the save returned
RoundTripLoad ==
    /\ pc = "save"
    /\ fn.stage = "returned"
    /\ fn.ret # <<>>
    /\ dataset' = load_master_data_file(data_dir, fn.ret)
    /\ fn' = [fn EXCEPT !.stage = "loaded"]
    /\ calls' = Append(calls, "load_master_data_file")
    /\ UNCHANGED <<disk, data_dir, mtime, config, pc, opts, file_paths, tree, thread,
                   result, runs>>

NextRoundTrip == SaveBegin \/ SaveFinish \/ RoundTripLoad

SpecRoundTrip == InitSave /\ [][NextRoundTrip]_vars

(***************************************************************************)
(* load_master_data_file over the files a path can name                    *)
(***************************************************************************)
SnapshotName == KeyedName(<<<<"unicode_data", "UD_A">>>>)

\* values of the unicode_data field
LoadRecordFields ==
    LET rec(cp) == [name |-> CharName(cp), category |-> CharCategory(cp),
                    char_obj |-> CharObj(cp), block |-> get_unicode_block(cp)]
    IN  {Absent, PyNone, PyNumber, PyList, PyMap(EmptyMap),
         PyMap([cp \in {"0041"} |-> rec(cp)]),
         PyMap([cp \in {"0041", "00E9"} |-> rec(cp)]),
         PyMap([cp \in {"0041"} |-> [category |-> "Lu", char_obj |-> "A"]]),
         PyMap([cp \in {"0041"} |-> [name |-> CharName(cp), category |-> "Lu"]])}

\* values of the aliases_data field
LoadAliasFields ==
    {Absent, PyNone, PyList, PyMap(EmptyMap), AliasesOfA,
     PyMap([cp \in {"0041"} |-> PySeq(<<>>)]),
     PyMap([cp \in {"0041"} |-> PyMap(EmptyMap)]),
     PyMap([cp \in {"0041"} |-> PyNumber])}

LoadContents ==
    {[json |-> "partial"], [json |-> "unparsable"], [json |-> "list"]}
    \cup {[json |-> "object", ud |-> u, ad |-> a] :
            u \in LoadRecordFields, a \in LoadAliasFields}

InitLoad ==
    /\ disk = [p \in Paths |-> "missing"]
    /\ config = [alias_sources |-> {ALIAS_SOURCE_CLDR}]
    /\ data_dir \in {NoDir, [exists |-> TRUE, files |-> EmptyMap]}
                    \cup {[exists |-> TRUE, files |-> [n \in {SnapshotName} |-> c]] :
                            c \in LoadContents}
    /\ mtime = [n \in DOMAIN data_dir.files |-> 0]
    /\ pc = "load"
    /\ opts = IdleOpts
    /\ file_paths = <<>>
    /\ dataset = NoData
    /\ calls = <<>>
    /\ tree = {}
    /\ thread = 0
    /\ result = NoResult
    /\ runs = 0
    /\ fn = [op |-> "load", stage |-> "called"]

LoadCall ==
    /\ pc = "load"
    /\ fn.stage = "called"
    /\ dataset' = load_master_data_file(data_dir, SnapshotName)
    /\ fn' = [fn EXCEPT !.stage = "returned"]
    /\ calls' = Append(calls, "load_master_data_file")
    /\ UNCHANGED <<disk, data_dir, mtime, config, pc, opts, file_paths, tree, thread,
                   result, runs>>

NextLoad == LoadCall

SpecLoad == InitLoad /\ [][NextLoad]_vars

(***************************************************************************)
(* find_master_file_by_checksum over the directories a key can be looked   *)
(* up in                                                                   *)
(***************************************************************************)
FindKeys == {<<<<"unicode_data", "UD_A">>>>, <<<<"unicode_data", "UD_AE">>>>,
             <<<<"unicode_data", "">>>>}

FindDirs ==
    {NoDir} \cup
    {[exists |-> TRUE, files |-> [n \in names |-> PreviousSnapshot]] :
        names \in SUBSET ({KeyedName(k) : k \in FindKeys} \cup {LegacyName})}

InitFind ==
    /\ disk = [p \in Paths |-> "missing"]
    /\ config = [alias_sources |-> {ALIAS_SOURCE_CLDR}]
    /\ data_dir \in FindDirs
    /\ mtime = [n \in DOMAIN data_dir.files |-> 0]
    /\ pc = "find"
    /\ opts = IdleOpts
    /\ file_paths = <<>>
    /\ dataset = NoData
    /\ calls = <<>>
    /\ tree = {}
    /\ thread = 0
    /\ result = NoResult
    /\ runs = 0
    /\ \E k \in FindKeys :
         fn = [op |-> "find", key |-> k, stage |-> "called", saved |-> <<>>, ret |-> <<>>]

\* save_master_data_file(..., checksum=key) before the lookup
FindSave ==
    /\ pc = "find"
    /\ fn.stage = "called"
    /\ fn.saved = <<>>
    /\ LET ds == CHOOSE d \in SaveDatasets :
                    Truthy(d.aliases_data) /\ DOMAIN d.unicode_data.m = {"0041", "00E9"}
           sv == save_master_data_file(data_dir, ds.unicode_data, ds.aliases_data, disk,
                                       <<>>, fn.key, "none")
       IN  /\ data_dir' = sv.dir
           /\ mtime' = Bump(mtime, sv.opened)
           /\ fn' = [fn EXCEPT !.saved = sv.name]
    /\ calls' = Append(calls, "save_master_data_file")
    /\ UNCHANGED <<disk, config, pc, opts, file_paths, dataset, tree, thread, result, runs>>

FindCall ==
    /\ pc = "find"
    /\ fn.stage = "called"
    /\ fn' = [fn EXCEPT !.stage = "returned",
                        !.ret = find_master_file_by_checksum(data_dir, fn.key)]
    /\ calls' = Append(calls, "find_master_file_by_checksum")
    /\ UNCHANGED <<disk, data_dir, mtime, config, pc, opts, file_paths, dataset, tree,
                   thread, result, runs>>

NextFind == FindSave \/ FindCall

SpecFind == InitFind /\ [][NextFind]_vars

(***************************************************************************)
(* The two filters called on their own: filter_by_unicode_blocks with a    *)
(* block list, filter_by_dataset with a dataset name under a configuration *)
(***************************************************************************)
\* most Basic Latin records of a filtered dataset
MaxLatin == 52

\* the Basic Latin code points the datasets draw from, in sorted order
LatinPoints == SelectSeq(CodePointOrder, LAMBDA cp : Len(cp) = 4 /\ cp \notin {"00E9", "00e9"})

FilterRecord(cp, block) ==
    [name |-> cp, category |-> "Ll", char_obj |-> cp, block |-> block]

\* a record mapping: n consecutive Basic Latin records from position
\* first + 1 on, alone, with a Latin-1 Supplement record, or with its first
\* record lacking the block field
FilterRecords ==
    {[cp \in {LatinPoints[i] : i \in (first + 1)..(first + n)}
            \cup (IF variant = "latin1" THEN {"00E9"} ELSE {}) |->
        IF cp = "00E9" THEN FilterRecord(cp, "Latin-1 Supplement")
        ELSE IF variant = "noblock" /\ cp = LatinPoints[first + 1]
        THEN [name |-> cp, category |-> "Ll", char_obj |-> cp]
        ELSE FilterRecord(cp, "Basic Latin")] :
        n \in 0..MaxLatin, first \in {0, 1}, variant \in {"plain", "latin1", "noblock"}}

\* alias mappings for a record mapping: none, every record, the last
\* Basic Latin record and U+00E9, or a key that no record has
FilterAliases(ud) ==
    LET latin == SelectSeq(LatinPoints, LAMBDA cp : cp \in DOMAIN ud)
        last == IF latin = <<>> THEN {} ELSE {latin[Len(latin)]}
    IN  {[cp \in keys |-> <<"a">>] :
            keys \in {{}, DOMAIN ud, last \cup ({"00E9"} \cap DOMAIN ud), last \cup {"00e9"}}}

FilterBlockLists ==
    {<<>>, <<"all">>, <<"Basic Latin">>, <<"Latin-1 Supplement">>,
     <<"Basic Latin", "all">>, <<"Cyrillic">>}

FilterDatasetNames == {DATASET_TEST, DATASET_EVERYDAY, DATASET_COMPLETE, "latin", "unknown"}

\* configurations: no configuration file (defaults), or a file with datasets
FilterConfigs ==
    {[alias_sources |-> {ALIAS_SOURCE_CLDR}],
     [alias_sources |-> {ALIAS_SOURCE_CLDR},
      datasets |-> [n \in {DATASET_EVERYDAY, DATASET_COMPLETE, "latin"} |->
                      CASE n = DATASET_EVERYDAY -> <<>>
                        [] n = DATASET_COMPLETE -> <<"all">>
                        [] OTHER -> <<"Basic Latin">>]],
     [alias_sources |-> {ALIAS_SOURCE_CLDR},
      datasets |-> [n \in {DATASET_EVERYDAY, DATASET_COMPLETE} |-> <<"Latin-1 Supplement">>]]}

FilterRequests ==
    {[kind |-> "blocks", blocks |-> b, dataset |-> ""] : b \in FilterBlockLists}
    \cup {[kind |-> "dataset", blocks |-> <<>>, dataset |-> d] : d \in FilterDatasetNames}

NoFiltered == [unicode_data |-> <<>>, aliases_data |-> <<>>]

InitFilter ==
    /\ disk = [p \in Paths |-> "missing"]
    /\ config \in FilterConfigs
    /\ data_dir = NoDir
    /\ mtime = <<>>
    /\ pc = "filter"
    /\ opts = IdleOpts
    /\ file_paths = <<>>
    /\ dataset = NoData
    /\ calls = <<>>
    /\ tree = {}
    /\ thread = 0
    /\ result = NoResult
    /\ runs = 0
    /\ \E ud \in FilterRecords, rq \in FilterRequests :
         \E ad \in FilterAliases(ud) :
            /\ rq.kind = "blocks" => "datasets" \notin DOMAIN config
            /\ fn = [op |-> "filter", unicode_data |-> ud, aliases_data |-> ad,
                     request |-> rq, stage |-> "called", ret |-> NoFiltered]

\* filter_by_unicode_blocks(unicode_data, aliases_data, blocks): the two
\* mappings given are only read
FilterByBlocksCall ==
    /\ pc = "filter"
    /\ fn.stage = "called"
    /\ fn.request.kind = "blocks"
    /\ fn' = [fn EXCEPT !.stage = "returned",
                        !.ret = filter_by_unicode_blocks(fn.unicode_data, fn.aliases_data,
                                                         fn.request.blocks)]
    /\ calls' = Append(calls, "filter_by_unicode_blocks")
    /\ UNCHANGED <<disk, data_dir, mtime, config, pc, opts, file_paths, dataset, tree,
                   thread, result, runs>>

\* filter_by_dataset(unicode_data, aliases_data, dataset)
FilterByDatasetCall ==
    /\ pc = "filter"
    /\ fn.stage = "called"
    /\ fn.request.kind = "dataset"
    /\ fn' = [fn EXCEPT !.stage = "returned",
                        !.ret = filter_by_dataset(fn.unicode_data, fn.aliases_data,
                                                  fn.request.dataset)]
    /\ calls' = Append(calls, "filter_by_dataset")
    /\ UNCHANGED <<disk, data_dir, mtime, config, pc, opts, file_paths, dataset, tree,
                   thread, result, runs>>

NextFilter == FilterByBlocksCall \/ FilterByDatasetCall

SpecFilter == InitFilter /\ [][NextFilter]_vars

(***************************************************************************)
(* process_data_files called on its own, on four downloaded files and the  *)
(* configured alias sources                                                *)
(***************************************************************************)
MergeContents(t) ==
    CASE t = "unicode_data" -> {"UD_A", "UD_AE"}
      [] t = "name_aliases" -> {"missing", "NA_A", "NA_e", "NA_Ee", "NA_pad"}
      [] t = "names_list" -> {"missing", "NL_A", "NL_e"}
      [] t = "cldr_annotations" -> {"missing", "CLDR_A", "CLDR_AL", "CLDR_e"}

MergeDisks ==
    {d \in [Paths -> UNION {MergeContents(t) : t \in SourceTypes}] :
        \A p \in Paths : d[p] \in MergeContents(TypeOfPath(p))}

AliasSourceLists ==
    SUBSET {ALIAS_SOURCE_FORMAL, ALIAS_SOURCE_INFORMATIVE, ALIAS_SOURCE_CLDR} \ {{}}

InitMerge ==
    /\ disk \in MergeDisks
    /\ config \in {[alias_sources |-> a] : a \in AliasSourceLists}
    /\ data_dir = NoDir
    /\ mtime = <<>>
    /\ pc = "merge"
    /\ opts = IdleOpts
    /\ file_paths = FetchedPaths("four")
    /\ dataset = NoData
    /\ calls = <<>>
    /\ tree = {}
    /\ thread = 0
    /\ result = NoResult
    /\ runs = 0
    /\ fn = [op |-> "merge", stage |-> "called", exc |-> FALSE]

\* process_data_files(file_paths, None)
MergeCall ==
    /\ pc = "merge"
    /\ fn.stage = "called"
    /\ LET r == process_data_files(disk, file_paths, "none", config.alias_sources)
       IN  /\ dataset' = [unicode_data |-> r.unicode_data, aliases_data |-> r.aliases_data]
           /\ fn' = [fn EXCEPT !.stage = "returned", !.exc = r.exc]
    /\ calls' = Append(calls, "process_data_files")
    /\ UNCHANGED <<disk, data_dir, mtime, config, pc, opts, file_paths, tree, thread,
                   result, runs>>

NextMerge == MergeCall

SpecMerge == InitMerge /\ [][NextMerge]_vars

(***************************************************************************)
(* export_data called on its own, on a dataset, options and an output      *)
(* directory that exists or does not                                       *)
(***************************************************************************)
ExportDatasets ==
    LET rec(cp) == [name |-> CharName(cp), category |-> CharCategory(cp),
                    char_obj |-> CharObj(cp), block |-> get_unicode_block(cp)]
    IN  {[unicode_data |-> u, aliases_data |-> a] :
            u \in {PyNone, PyMap(EmptyMap), PyMap([cp \in {"0041"} |-> rec(cp)]),
                   PyMap([cp \in {"0041", "00E9"} |-> rec(cp)])},
            a \in {PyNone, PyMap(EmptyMap), AliasesOfA}}

ExportDataOptions ==
    {[format_type |-> f, compress |-> FALSE, dataset |-> d, unicode_blocks |-> b,
      output_dir_ok |-> ok, use_master_file |-> FALSE, master_file_path |-> <<>>] :
        f \in {"csv", "all", "xml"},
        d \in {"", DATASET_COMPLETE, DATASET_TEST},
        b \in {<<>>, <<"Latin-1 Supplement">>, <<"Cyrillic">>},
        ok \in BOOLEAN}

InitExportData ==
    /\ disk = [p \in Paths |-> "missing"]
    /\ config = [alias_sources |-> {ALIAS_SOURCE_CLDR}]
    /\ data_dir = NoDir
    /\ mtime = <<>>
    /\ pc = "export_data"
    /\ opts = IdleOpts
    /\ file_paths = <<>>
    /\ dataset \in ExportDatasets
    /\ calls = <<>>
    /\ tree = {}
    /\ thread = 0
    /\ result = NoResult
    /\ runs = 0
    /\ \E o \in ExportDataOptions, there \in BOOLEAN :
         fn = [op |-> "export_data", options |-> o, stage |-> "called",
               dir_before |-> there, dir_exists |-> there,
               ret |-> [exc |-> FALSE, files |-> <<>>, msg |-> "", makedirs |-> FALSE]]

\* export_data(unicode_data, aliases_data, options): os.makedirs creates the
\* output directory when it can
ExportDataCall ==
    /\ pc = "export_data"
    /\ fn.stage = "called"
    /\ LET r == export_data(data_dir, dataset.unicode_data, dataset.aliases_data, fn.options)
       IN  fn' = [fn EXCEPT !.stage = "returned", !.ret = r,
                            !.dir_exists = @ \/ (r.makedirs /\ fn.options.output_dir_ok)]
    /\ calls' = Append(calls, "export_data")
    /\ UNCHANGED <<disk, data_dir, mtime, config, pc, opts, file_paths, dataset, tree,
                   thread, result, runs>>

NextExportData == ExportDataCall

SpecExportData == InitExportData /\ [][NextExportData]_vars

(***************************************************************************)
(* optimized_export step by step, over the files of the output directory.  *)
(* A file is [pre, rec, post, gz]: the preambles written to it, whether    *)
(* record bodies and the closing were written, whether it is a gzip copy.  *)
(* keeps tells what the with block of line 196 leaves of the handle: the   *)
(* built-in open gives a file object that the block closes (FALSE); TRUE   *)
(* is an open() whose file objects stay usable once the block is left.     *)
(* fault is the one failure of the file system during the call.            *)
(***************************************************************************)
NewFile == [pre |-> 0, rec |-> FALSE, post |-> FALSE, gz |-> FALSE]
WholeFile == [pre |-> 1, rec |-> TRUE, post |-> TRUE, gz |-> FALSE]

WriteFile(files, name, c) ==
    [n \in DOMAIN files \cup {name} |-> IF n = name THEN c ELSE files[n]]
\* an os.remove that leaves the file
KeepFile(files, name) == files

RemoveFile(files, name) == [n \in DOMAIN files \ {name} |-> files[n]]

\* temp_filename of a format: output_filename, with ".temp" when compressing
TempName(fmt, options) ==
    IF options.compress
    THEN get_output_filename(fmt, options.dataset) \o <<"temp">>
    ELSE get_output_filename(fmt, options.dataset)

\* the formats whose preamble and closing are written by optimized_export
Bracketed == {"json", "lua"}

ExportFormatLists ==
    {<<"csv">>, <<"json">>, <<"txt">>, <<"csv", "json">>, <<"json", "csv">>,
     <<"txt", "lua">>, <<"xml">>, <<"xml", "csv">>, <<"json", "txt", "csv">>}

ExportFaults(formats) ==
    {[kind |-> "none", fmt |-> formats[1]]}
    \cup {[kind |-> k, fmt |-> f] :
            k \in {"records", "footer", "sync", "compress", "remove"}, f \in Range(formats)}

\* the output directory before the call: empty, or holding the files an
\* earlier export of the first format left
ExportDirs(formats, options) ==
    LET name == get_output_filename(formats[1], options.dataset)
    IN  {EmptyMap,
         [n \in {name, Compressed(name)} |-> [WholeFile EXCEPT !.gz = (n # name)]]}

InitOptimizedExport ==
    /\ disk = [p \in Paths |-> "missing"]
    /\ config = [alias_sources |-> {ALIAS_SOURCE_CLDR}]
    /\ data_dir = NoDir
    /\ mtime = <<>>
    /\ pc = "optimized_export"
    /\ opts = IdleOpts
    /\ file_paths = <<>>
    /\ dataset = NoData
    /\ calls = <<>>
    /\ tree = {}
    /\ thread = 0
    /\ result = NoResult
    /\ runs = 0
    /\ \E formats \in ExportFormatLists, compress \in BOOLEAN, keeps \in BOOLEAN :
         LET o == [compress |-> compress, dataset |-> DATASET_COMPLETE]
         IN  \E fault \in ExportFaults(formats), before \in ExportDirs(formats, o),
                   valid \in BOOLEAN :
                fn = [op |-> "optimized_export", formats |-> formats, options |-> o,
                      verify |-> valid, verified |-> <<>>,
                      keeps |-> keeps, fault |-> fault, before |-> before,
                      files |-> before, at |-> "entry", i |-> 1, active |-> <<>>,
                      temp |-> {}, handles |-> EmptyMap, out |-> <<>>, bodies |-> FALSE,
                      exc |-> FALSE, failed |-> "", ret |-> <<>>]

ExportAt(at) == pc = "optimized_export" /\ fn.at = at

ExportFrame ==
    UNCHANGED <<disk, data_dir, mtime, config, pc, opts, file_paths, dataset, calls,
                tree, thread, result, runs>>

\* lines 142-164: the exporters of the requested formats are looked up;
\* without one the error is raised before the try block
ExportEntry ==
    /\ ExportAt("entry")
    /\ LET active == SelectSeq(fn.formats, LAMBDA f : f \in RegisteredFormats)
       IN  fn' = IF active = <<>>
                 THEN [fn EXCEPT !.exc = TRUE, !.failed = "entry", !.at = "raised"]
                 ELSE [fn EXCEPT !.active = active, !.at = "open", !.i = 1]
    /\ ExportFrame

\* lines 170-209, one format: its names are recorded, its file is opened
\* for writing inside a with block, and its preamble is written after the
\* block
ExportOpen ==
    /\ ExportAt("open")
    /\ LET fmt == fn.active[fn.i]
           name == TempName(fmt, fn.options)
           handle == IF fn.keeps THEN "open" ELSE "closed"
           raises == fmt \in Bracketed /\ handle = "closed"
           content == IF fmt \in Bracketed /\ ~raises
                      THEN [NewFile EXCEPT !.pre = 1] ELSE NewFile
       IN  fn' = [fn EXCEPT
                    !.temp = @ \cup {fmt},
                    !.handles = [f \in DOMAIN @ \cup {fmt} |->
                                   IF f = fmt THEN handle ELSE @[f]],
                    !.files = WriteFile(@, name, content),
                    !.exc = raises,
                    !.failed = IF raises THEN "open" ELSE @,
                    !.i = @ + 1,
                    !.at = IF raises THEN "cleanup"
                           ELSE IF fn.i = Len(fn.active) THEN "header" ELSE "open"]
    /\ ExportFrame

\* lines 211-233: the preamble of the format the loop ended on, once more,
\* or the header row of CSV
ExportHeader ==
    /\ ExportAt("header")
    /\ LET fmt == fn.active[Len(fn.active)]
           name == TempName(fmt, fn.options)
           writes == fmt \in Bracketed \cup {"csv"}
           raises == writes /\ fn.handles[fmt] = "closed"
       IN  fn' = [fn EXCEPT
                    !.files = IF writes /\ ~raises
                              THEN WriteFile(@, name, [@[name] EXCEPT !.pre = @ + 1])
                              ELSE @,
                    !.exc = raises,
                    !.failed = IF raises THEN "header" ELSE @,
                    !.at = IF raises THEN "cleanup" ELSE "records"]
    /\ ExportFrame

\* lines 236-357: every record is written to every format, in the order of
\* the formats.  The first write to a closed handle raises; the CSV row
\* needs max_aliases_by_fmt["csv"], which lines 220-227 set only when the
\* loop of lines 170-209 ended on CSV (KeyError otherwise); a write the file
\* system refuses raises.
ExportRecords ==
    /\ ExportAt("records")
    /\ LET closed == \E f \in Range(fn.active) : fn.handles[f] = "closed"
           keyError == "csv" \in Range(fn.active) /\ fn.active[Len(fn.active)] # "csv"
           reached == IF closed THEN {}
                      ELSE IF keyError
                      THEN {fn.active[k] : k \in {n \in DOMAIN fn.active :
                                \A m \in 1..n : fn.active[m] # "csv"}}
                      ELSE Range(fn.active)
           names == {TempName(f, fn.options) : f \in reached}
           raises == closed \/ keyError \/ fn.fault.kind = "records"
       IN  fn' = [fn EXCEPT
                    !.files = [n \in DOMAIN @ |->
                                 IF n \in names THEN [@[n] EXCEPT !.rec = TRUE] ELSE @[n]],
                    !.bodies = reached # {},
                    !.exc = raises,
                    !.failed = IF raises THEN "records" ELSE @,
                    !.i = 1,
                    !.at = IF raises THEN "cleanup" ELSE "finalise"]
    /\ ExportFrame

\* an export that validates nothing
verify_skipped(state, name) == state

\* lines 405-407: exporters[fmt].verify(temp_filename), whose result
\* (state.verify) is not looked at
verify_file(state, name) == [state EXCEPT !.verified = Append(@, name)]

\* lines 359-420, one requested format: closing, flush and close, the check
\* of the written file, then compression and removal of the temporary file
\* or verification; any exception is raised again
ExportFinalise ==
    /\ ExportAt("finalise")
    /\ fn.i <= Len(fn.formats)
    /\ LET fmt == fn.formats[fn.i]
           hit(kind) == fn.fault.kind = kind /\ fn.fault.fmt = fmt
           name == TempName(fmt, fn.options)
           final == get_output_filename(fmt, fn.options.dataset)
           footed == IF fmt \in Bracketed /\ ~hit("footer")
                     THEN WriteFile(fn.files, name, [fn.files[name] EXCEPT !.post = TRUE])
                     ELSE fn.files
           empty == footed[name].pre = 0 /\ ~footed[name].rec /\ ~footed[name].post
           zipped == WriteFile(footed, Compressed(final), [footed[name] EXCEPT !.gz = TRUE])
           raised(files, where) ==
               [fn EXCEPT !.files = files, !.exc = TRUE, !.failed = where, !.at = "cleanup",
                          !.handles = [@ EXCEPT ![fmt] = "closed"]]
           done(files, output) ==
               [fn EXCEPT !.files = files, !.out = Append(@, output), !.i = @ + 1,
                          !.handles = [@ EXCEPT ![fmt] = "closed"]]
       IN  fn' = IF fmt \notin DOMAIN fn.handles THEN [fn EXCEPT !.i = @ + 1]
                 ELSE IF fmt \in Bracketed /\ hit("footer") THEN raised(fn.files, "footer")
                 ELSE IF hit("sync") THEN raised(footed, "sync")
                 ELSE IF empty THEN raised(footed, "check")
                 ELSE IF fn.options.compress
                 THEN IF hit("compress")
                      THEN raised(RemoveFile(footed, Compressed(final)), "compress")
                      ELSE IF hit("remove") THEN raised(zipped, "remove")
                      ELSE done(RemoveFile(zipped, name), Compressed(final))
                 ELSE verify_file(done(footed, name), name)
    /\ ExportFrame

\* lines 422-425: after the last format
ExportFinalised ==
    /\ ExportAt("finalise")
    /\ fn.i > Len(fn.formats)
    /\ fn' = IF fn.out = <<>>
             THEN [fn EXCEPT !.exc = TRUE, !.failed = "empty", !.at = "cleanup"]
             ELSE [fn EXCEPT !.ret = fn.out, !.at = "cleanup"]
    /\ ExportFrame

\* a finally block that leaves the temporary files where they are
ExportNoCleanup ==
    /\ ExportAt("cleanup")
    /\ fn' = [fn EXCEPT !.at = IF fn.exc THEN "raised" ELSE "returned"]
    /\ ExportFrame

\* lines 427-439, the finally block: the temporary file of every format
\* that has one is removed when it exists (a removal that fails is logged)
ExportCleanup ==
    /\ ExportAt("cleanup")
    /\ LET names == {TempName(f, fn.options) : f \in Range(fn.formats) \cap fn.temp}
           kept == {TempName(f, fn.options) : f \in {fn.fault.fmt}} \cap
                   (IF fn.fault.kind = "remove" THEN names ELSE {})
       IN  fn' = [fn EXCEPT
                    !.files = [n \in DOMAIN @ \ (names \ kept) |-> @[n]],
                    !.at = IF fn.exc THEN "raised" ELSE "returned"]
    /\ ExportFrame

NextOptimizedExport ==
    \/ ExportEntry
    \/ ExportOpen
    \/ ExportHeader
    \/ ExportRecords
    \/ ExportFinalise
    \/ ExportFinalised
    \/ ExportCleanup

SpecOptimizedExport == InitOptimizedExport /\ [][NextOptimizedExport]_vars

(***************************************************************************)
(* The CSV a dataset is written as: by CSVExporter.write, and by the CSV   *)
(* branch of optimized_export when its writes reach the file               *)
(***************************************************************************)
\* most aliases of one code point
MaxAliases == 3

AliasNames == <<"a", "b", "c", "d">>

BaseHeaders == <<"code_point", "character", "name", "category", "block">>

\* f"U+{code_point_hex}"
UPlus(code_point_hex) ==
    CASE code_point_hex = "0041" -> "U+0041"
      [] code_point_hex = "00E9" -> "U+00E9"
      [] OTHER -> "U+"

AliasHeader(i) ==
    CASE i = 1 -> "alias_1" [] i = 2 -> "alias_2" [] i = 3 -> "alias_3" [] OTHER -> "alias_4"

MaxOf(counts) ==
    IF counts = {} THEN 0 ELSE CHOOSE n \in counts : \A m \in counts : m <= n

\* csv_exporter.py 61-66: the longest alias list of a code point of
\* unicode_data
max_aliases_of_records(ud, ad) ==
    MaxOf({Len(ad[cp]) : cp \in DOMAIN ud \cap DOMAIN ad})

\* exporter.py 220-227: the longest alias list of aliases_data
max_aliases_of_values(ud, ad) ==
    MaxOf({Len(ad[cp]) : cp \in DOMAIN ad})

CsvHeaders(max_aliases) ==
    [i \in 1..(Len(BaseHeaders) + max_aliases) |->
        IF i <= Len(BaseHeaders) THEN BaseHeaders[i] ELSE AliasHeader(i - Len(BaseHeaders))]

\* the row of a record: five fields, then max_aliases alias fields
CsvRow(cp, data, current_aliases, max_aliases) ==
    [i \in 1..(Len(BaseHeaders) + max_aliases) |->
        CASE i = 1 -> UPlus(cp)
          [] i = 2 -> data.char_obj
          [] i = 3 -> data.name
          [] i = 4 -> data.category
          [] i = 5 -> IF "block" \in DOMAIN data THEN data.block ELSE "Unknown Block"
          [] OTHER -> IF i - Len(BaseHeaders) <= Len(current_aliases)
                      THEN current_aliases[i - Len(BaseHeaders)] ELSE ""]

\* the header and the rows a writer produces: [headers, rows]
CsvWritten(writer, ud, ad) ==
    LET max_aliases == IF writer = "CSVExporter.write"
                       THEN max_aliases_of_records(ud, ad)
                       ELSE max_aliases_of_values(ud, ad)
    IN  [headers |-> CsvHeaders(max_aliases),
         rows |-> [cp \in DOMAIN ud |->
                     CsvRow(cp, ud[cp], IF cp \in DOMAIN ad THEN ad[cp] ELSE <<>>,
                            max_aliases)]]

CsvRecords ==
    {[cp \in cps |-> [name |-> CharName(cp), category |-> CharCategory(cp),
                    char_obj |-> CharObj(cp), block |-> get_unicode_block(cp)]] :
        cps \in SUBSET {"0041", "00E9"} \ {{}}}

\* alias mappings over the keys of records and the unpadded key "41"
CsvAliases ==
    UNION {[keys -> {SubSeq(AliasNames, 1, n) : n \in 0..MaxAliases}] :
             keys \in SUBSET {"0041", "00E9", "41"}}

InitCsv ==
    /\ disk = [p \in Paths |-> "missing"]
    /\ config = [alias_sources |-> {ALIAS_SOURCE_CLDR}]
    /\ data_dir = NoDir
    /\ mtime = <<>>
    /\ pc = "csv"
    /\ opts = IdleOpts
    /\ file_paths = <<>>
    /\ dataset = NoData
    /\ calls = <<>>
    /\ tree = {}
    /\ thread = 0
    /\ result = NoResult
    /\ runs = 0
    /\ \E ud \in CsvRecords, ad \in CsvAliases :
         fn = [op |-> "csv", unicode_data |-> ud, aliases_data |-> ad, stage |-> "called",
               writer |-> "", written |-> [headers |-> <<>>, rows |-> <<>>]]

\* CSVExporter.write(unicode_data, aliases_data, output_filename)
CsvExporterWrite ==
    /\ pc = "csv"
    /\ fn.stage = "called"
    /\ fn' = [fn EXCEPT !.stage = "written", !.writer = "CSVExporter.write",
                        !.written = CsvWritten("CSVExporter.write", fn.unicode_data,
                                               fn.aliases_data)]
    /\ calls' = Append(calls, "CSVExporter.write")
    /\ UNCHANGED <<disk, data_dir, mtime, config, pc, opts, file_paths, dataset, tree,
                   thread, result, runs>>

\* optimized_export(unicode_data, aliases_data, ["csv"], options): lines
\* 220-231 and 240-255
CsvOptimizedExport ==
    /\ pc = "csv"
    /\ fn.stage = "called"
    /\ fn' = [fn EXCEPT !.stage = "written", !.writer = "optimized_export",
                        !.written = CsvWritten("optimized_export", fn.unicode_data,
                                               fn.aliases_data)]
    /\ calls' = Append(calls, "optimized_export")
    /\ UNCHANGED <<disk, data_dir, mtime, config, pc, opts, file_paths, dataset, tree,
                   thread, result, runs>>

NextCsv == CsvExporterWrite \/ CsvOptimizedExport

SpecCsv == InitCsv /\ [][NextCsv]_vars

(***************************************************************************)
(* parse_names_list line by line.  A line is what the parser looks at:     *)
(* indented (the line as read starts with a tab), lead (the first          *)
(* character of the stripped line: "" for a blank line, "0" for a hex      *)
(* digit, "x" for any other), fields (the parts of line.split("\t", 1)),   *)
(* first (parts[0].strip()), text, len and paren (what follows the marker, *)
(* stripped: its length and the parenthesis it holds).                     *)
(***************************************************************************)
\* the longest NamesList file
MaxLines == 3

NamesLine(indented, lead, fields, first, text, len, paren) ==
    [indented |-> indented, lead |-> lead, fields |-> fields, first |-> first,
     text |-> text, len |-> len, paren |-> paren]

NamesLines ==
    {NamesLine(FALSE, "0", 2, "0041", "", 0, ""),       \* 0041<TAB>LATIN CAPITAL LETTER A
     NamesLine(FALSE, "0", 2, "00e9", "", 0, ""),       \* 00e9<TAB>LATIN SMALL LETTER E WITH ACUTE
     NamesLine(FALSE, "0", 1, "0042", "", 0, ""),       \* 0042
     NamesLine(FALSE, "@", 2, "@", "", 0, ""),          \* @<TAB><TAB>Uppercase alphabet
     NamesLine(FALSE, "", 1, "", "", 0, ""),            \* a blank line
     NamesLine(TRUE, "=", 1, "", "alias", 5, ""),       \* <TAB>= alias
     NamesLine(TRUE, "*", 1, "", "note49", 49, ""),     \* <TAB>* a note of 49 characters
     NamesLine(TRUE, "*", 1, "", "note50", 50, ""),     \* <TAB>* a note of 50 characters
     NamesLine(TRUE, "*", 1, "", "note(", 5, "("),      \* <TAB>* note(
     NamesLine(TRUE, "*", 1, "", "note)", 5, ")"),      \* <TAB>* note)
     NamesLine(TRUE, "x", 1, "", "0042", 4, "")}        \* <TAB>x 0042

NamesFiles == UNION {[1..n -> NamesLines] : n \in 1..MaxLines}

\* a parser that takes every note
note_accepted_always(line) == TRUE

\* line 180: len(note) < 50 and "(" not in note and ")" not in note
note_accepted(line) == line.len < 50 /\ line.paren = ""

\* lines 147-182, the body of the loop for one line, on
\* [current_code_point, informative_aliases]
names_list_line(state, line) ==
    LET current == state.current_code_point
        append(alias) ==
            LET code_point_hex == Upper(current.v)
                ia == state.informative_aliases
            IN  [state EXCEPT !.informative_aliases =
                    [cp \in DOMAIN ia \cup {code_point_hex} |->
                        IF cp \in DOMAIN ia /\ cp # code_point_hex THEN ia[cp]
                        ELSE IF cp \in DOMAIN ia THEN Append(ia[cp], alias)
                        ELSE <<alias>>]]
    IN  IF line.lead \in {"", "@", ";"} THEN state
        ELSE IF ~line.indented
        THEN [state EXCEPT !.current_code_point =
                 IF line.fields = 2 THEN [k |-> "str", v |-> line.first] ELSE PyNone]
        ELSE IF current # PyNone /\ line.lead = "="
        THEN append(line.text)
        ELSE IF current # PyNone /\ line.lead = "*" /\ note_accepted(line)
        THEN append(line.text)
        ELSE state

InitNamesList ==
    /\ disk = [p \in Paths |-> "missing"]
    /\ config = [alias_sources |-> {ALIAS_SOURCE_INFORMATIVE}]
    /\ data_dir = NoDir
    /\ mtime = <<>>
    /\ pc = "parse_names_list"
    /\ opts = IdleOpts
    /\ file_paths = <<>>
    /\ dataset = NoData
    /\ calls = <<>>
    /\ tree = {}
    /\ thread = 0
    /\ result = NoResult
    /\ runs = 0
    /\ \E lines \in NamesFiles :
         fn = [op |-> "parse_names_list", lines |-> lines, i |-> 1, stage |-> "reading",
               current_code_point |-> PyNone, informative_aliases |-> EmptyMap,
               ret |-> EmptyMap]

\* one turn of `for line in f`
NamesListLine ==
    /\ pc = "parse_names_list"
    /\ fn.stage = "reading"
    /\ fn.i <= Len(fn.lines)
    /\ LET state == names_list_line(
                       [current_code_point |-> fn.current_code_point,
                        informative_aliases |-> fn.informative_aliases], fn.lines[fn.i])
       IN  fn' = [fn EXCEPT !.i = @ + 1,
                            !.current_code_point = state.current_code_point,
                            !.informative_aliases = state.informative_aliases]
    /\ UNCHANGED <<disk, data_dir, mtime, config, pc, opts, file_paths, dataset, calls,
                   tree, thread, result, runs>>

\* line 184: return informative_aliases
NamesListReturn ==
    /\ pc = "parse_names_list"
    /\ fn.stage = "reading"
    /\ fn.i > Len(fn.lines)
    /\ fn' = [fn EXCEPT !.stage = "returned", !.ret = fn.informative_aliases]
    /\ UNCHANGED <<disk, data_dir, mtime, config, pc, opts, file_paths, dataset, calls,
                   tree, thread, result, runs>>

NextNamesList == NamesListLine \/ NamesListReturn

SpecNamesList == InitNamesList /\ [][NextNamesList]_vars

(***************************************************************************)
(* Properties of the pipeline run                                          *)
(***************************************************************************)
Called(f) == f \in Range(calls)

\* the snapshot file named for the checksum of the run's source files
CurrentSnapshot ==
    LET sum == calculate_source_files_checksum(disk, file_paths)
    IN  IF sum.exc THEN <<>> ELSE KeyedName(sum.key)

\* that file exists in the data directory and loads to a dataset
SnapshotReusable ==
    /\ data_dir.exists
    /\ CurrentSnapshot \in DOMAIN data_dir.files
    /\ LET l == load_master_data_file(data_dir, CurrentSnapshot)
       IN  Truthy(l.unicode_data) /\ Truthy(l.aliases_data)

\* a run without force that is at the lookup with a reusable snapshot, or
\* that reached the export from the lookup
OnHitPath ==
    /\ ~opts.force
    /\ \/ pc = "cache" /\ SnapshotReusable
       \/ pc = "export" /\ ~Called("process_data_files")

SourcesMerge ==
    /\ file_paths # <<>>
    /\ ~calculate_source_files_checksum(disk, file_paths).exc
    /\ LET r == process_data_files(disk, file_paths, "none", config.alias_sources)
       IN  ~r.exc /\ Truthy(r.unicode_data) /\ Truthy(r.aliases_data)

\* C2: a run with force set, over source files that parse and merge, has on
\* its return made no snapshot lookup and no load, and has called
\* process_data_files and then save_master_data_file; it has called
\* export_data only after the save.
C2_ForceRunRebuilds ==
    (pc = "returned" /\ opts.force /\ SourcesMerge) =>
        /\ ~Called("find_master_file_by_checksum")
        /\ ~Called("load_master_data_file")
        /\ Called("process_data_files")
        /\ Called("save_master_data_file")
        /\ \A i, j \in DOMAIN calls :
              calls[i] = "export_data" /\ calls[j] = "save_master_data_file" => j < i

\* the lookup finds a snapshot for the current key and the load returns no data
LoadFails ==
    /\ ~opts.force
    /\ data_dir.exists
    /\ CurrentSnapshot \in DOMAIN data_dir.files
    /\ load_master_data_file(data_dir, CurrentSnapshot) = NoData

\* C3: when the lookup finds a snapshot and its load returns no data, the run
\* goes on to process_data_files, and over source files that parse and merge
\* that step calls save_master_data_file rather than return failure before
\* the save.
C3_LoadFailureFallsBack ==
    [][/\ (pc = "cache" /\ LoadFails) => pc' = "process"
       /\ (pc = "process" /\ Called("load_master_data_file") /\ SourcesMerge) =>
             "save_master_data_file" \in Range(calls')]_vars

C5_NoExceptionEscapes ==
    /\ result.kind # "raised"
    /\ (result.kind = "returned" /\ ~result.ok) => result.files = <<>>

\* a run whose export_data call raised has returned (False, [])
C5_Witness ==
    /\ pc = "returned"
    /\ result.kind = "returned" /\ ~result.ok /\ result.files = <<>>
    /\ Called("export_data")
    /\ export_data(data_dir, dataset.unicode_data, dataset.aliases_data, opts.export).exc

\* the primary file of the run yields at least one record
PrimaryYieldsRecords ==
    /\ file_paths # <<>>
    /\ DOMAIN parse_unicode_data(disk, PathOf(file_paths, "unicode_data")) # {}

\* the file of an alias source
AliasFileType(src) ==
    CASE src = ALIAS_SOURCE_FORMAL -> "name_aliases"
      [] src = ALIAS_SOURCE_INFORMATIVE -> "names_list"
      [] src = ALIAS_SOURCE_CLDR -> "cldr_annotations"

\* an enabled alias source whose file was not fetched, is missing or is
\* unreadable
AliasSourceUnavailable ==
    \E src \in config.alias_sources :
        \/ AliasFileType(src) \notin Keys(file_paths)
        \/ ~Readable(disk, CachePath(AliasFileType(src)))

\* C6: a run that rebuilds the dataset from a primary file with at least one
\* record, while an enabled alias source is missing or unreadable, has on its
\* return called save_master_data_file.
C6_AliasSourcesOptional ==
    (pc = "returned" /\ opts.force /\ PrimaryYieldsRecords /\ AliasSourceUnavailable) =>
        Called("save_master_data_file")

\* the primary file of the run is missing or unreadable
PrimaryUnavailable ==
    /\ file_paths # <<>>
    /\ ~Readable(disk, PathOf(file_paths, "unicode_data"))

Pairs(fp) == {<<fp[i].type, disk[fp[i].path]>> : i \in DOMAIN fp}

BothKeysReturned ==
    /\ fn.op = "checksum"
    /\ Len(fn.sums) = 2
    /\ ~fn.sums[1].exc /\ ~fn.sums[2].exc

\* C8: two calls over mappings with the same (identifier, content) pairs
\* return the same key, whatever the insertion orders and the locations; two
\* calls over the same identifiers with a file of different content return
\* different keys.
C8_KeyOfPairs ==
    BothKeysReturned =>
        /\ Pairs(fn.a) = Pairs(fn.b) => fn.sums[1].key = fn.sums[2].key
        /\ (Keys(fn.a) = Keys(fn.b) /\ Pairs(fn.a) # Pairs(fn.b)) =>
              fn.sums[1].key # fn.sums[2].key

\* two mappings of two identifiers, inserted in opposite orders and naming
\* files of different directories with the same contents, got the same key
C8_Witness ==
    /\ BothKeysReturned
    /\ Len(fn.a) = 2 /\ Len(fn.b) = 2
    /\ fn.a[1].type = fn.b[2].type
    /\ \A i, j \in 1..2 : fn.a[i].path # fn.b[j].path
    /\ Pairs(fn.a) = Pairs(fn.b)
    /\ \A i \in 1..2 : disk[fn.a[i].path] \in {"X", "Y"}
    /\ fn.sums[1].key = fn.sums[2].key

(***************************************************************************)
(* Properties of the snapshot files                                        *)
(***************************************************************************)
SameContent(a, b) ==
    /\ a.json = b.json
    /\ a.json = "object" => (a.ud = b.ud /\ a.ad = b.ad)

\* C9: during and after a save no file of the data directory holds a partly
\* written snapshot, and a save that failed has left the snapshot that was
\* under the final name as it was.
C9_NoPartialSnapshot ==
    fn.op = "save" =>
        /\ \A n \in DOMAIN data_dir.files : data_dir.files[n].json # "partial"
        /\ (fn.stage = "returned" /\ fn.ret = <<>>
               /\ fn.target \in DOMAIN fn.before.files) =>
              /\ fn.target \in DOMAIN data_dir.files
              /\ SameContent(data_dir.files[fn.target], fn.before.files[fn.target])

\* the shape load_master_data_file is to accept
StructurallyValid(c) ==
    /\ c.json = "object"
    /\ c.ud.k = "map" /\ c.ad.k = "map"
    /\ \A cp \in DOMAIN c.ud.m : RequiredFields \subseteq DOMAIN c.ud.m[cp]
    /\ \A cp \in DOMAIN c.ad.m : c.ad.m[cp].k = "seq"

\* C10: a load of a path that names no file, or a file that is unparsable or
\* not of the snapshot's shape, has returned (None, None).
C10_LoadFailsClosed ==
    (fn.op = "load" /\ fn.stage = "returned") =>
        ((~data_dir.exists
            \/ SnapshotName \notin DOMAIN data_dir.files
            \/ ~StructurallyValid(data_dir.files[SnapshotName]))
         => (dataset.unicode_data.k = "none" /\ dataset.aliases_data.k = "none"))

\* a record of the snapshot's shape: name, category, glyph and block
FullRecord(r) == DOMAIN r = {"name", "category", "char_obj", "block"}

\* C11: the load of the file a save wrote returns the alias mapping that was
\* saved and, for every code point saved with name, category, glyph and
\* block, the record that was saved; it returns no other code point.
C11_RoundTrip ==
    (fn.op = "save" /\ fn.stage = "loaded") =>
        /\ dataset.aliases_data = fn.aliases_data
        /\ dataset.unicode_data.k = "map"
        /\ DOMAIN dataset.unicode_data.m = DOMAIN fn.unicode_data.m
        /\ \A cp \in DOMAIN fn.unicode_data.m :
              FullRecord(fn.unicode_data.m[cp]) =>
                 dataset.unicode_data.m[cp] = fn.unicode_data.m[cp]

\* a dataset whose record carries its block was saved over an earlier
\* snapshot and loaded back
C11_Witness ==
    /\ fn.op = "save" /\ fn.stage = "loaded"
    /\ fn.target \in DOMAIN fn.before.files
    /\ \E cp \in DOMAIN fn.unicode_data.m :
          /\ FullRecord(fn.unicode_data.m[cp])
          /\ fn.unicode_data.m[cp].block = "Basic Latin"
          /\ dataset.unicode_data.m[cp].block = "Basic Latin"
    /\ DOMAIN dataset.aliases_data.m # {}

\* C12: the lookup of a key returns the name unicode_master_data_<key>.json
\* when the directory exists and holds that file, and None otherwise; after a
\* save under the key it returns the path the save returned.
C12_FindByChecksum ==
    (fn.op = "find" /\ fn.stage = "returned") =>
        /\ fn.ret = (IF data_dir.exists /\ KeyedName(fn.key) \in DOMAIN data_dir.files
                     THEN KeyedName(fn.key) ELSE <<>>)
        /\ fn.saved # <<>> => fn.ret = fn.saved

\* a lookup returned the path of a save made into a directory that held
\* other snapshots and none for the key; another lookup returned None
\* beside snapshots of other keys
C12_Witness ==
    /\ fn.op = "find" /\ fn.stage = "returned"
    /\ fn.saved # <<>> /\ fn.ret = fn.saved
    /\ mtime[fn.ret] = 1
    /\ \E n \in DOMAIN data_dir.files : n # fn.ret

\* the block list a filter request asks for
RequestedBlocks(rq) ==
    IF rq.kind = "blocks" THEN rq.blocks
    ELSE IF rq.dataset = DATASET_TEST THEN <<"Basic Latin">>
    ELSE get_dataset_blocks(rq.dataset)

\* a request that asks for no restriction: an empty (or missing) block list,
\* the sentinel "all" in the list, or the complete dataset
Bypass(rq) ==
    \/ rq.kind = "dataset" /\ rq.dataset = DATASET_COMPLETE
    \/ RequestedBlocks(rq) = <<>>
    \/ "all" \in Range(RequestedBlocks(rq))

FilterReturned == fn.op = "filter" /\ fn.stage = "returned"

\* C13: a filter leaves the two mappings it was given as they were; the
\* records it returns are records of the input, and unless the request is a
\* bypass every returned record has a block of the requested list and every
\* key of the returned aliases is a key of the returned records.
C13_FilterRestricts ==
    [][(fn.op = "filter" /\ fn.stage = "called" /\ fn'.stage = "returned") =>
        LET r == fn'.ret
            rq == fn.request
        IN  /\ fn'.unicode_data = fn.unicode_data
            /\ fn'.aliases_data = fn.aliases_data
            /\ DOMAIN r.unicode_data \subseteq DOMAIN fn.unicode_data
            /\ \A cp \in DOMAIN r.unicode_data : r.unicode_data[cp] = fn.unicode_data[cp]
            /\ ~Bypass(rq) =>
                 /\ \A cp \in DOMAIN r.unicode_data :
                      /\ "block" \in DOMAIN r.unicode_data[cp]
                      /\ r.unicode_data[cp].block \in Range(RequestedBlocks(rq))
                 /\ DOMAIN r.aliases_data \subseteq DOMAIN r.unicode_data]_vars

\* a configured dataset of one block, filtered: some records and some alias
\* entries were dropped, some records and aliases were kept
C13_Witness ==
    /\ FilterReturned
    /\ fn.request.kind = "dataset"
    /\ fn.request.dataset = "latin"
    /\ ~Bypass(fn.request)
    /\ DOMAIN fn.ret.unicode_data # {}
    /\ DOMAIN fn.ret.unicode_data # DOMAIN fn.unicode_data
    /\ DOMAIN fn.ret.aliases_data # {}
    /\ DOMAIN fn.ret.aliases_data # DOMAIN fn.aliases_data

Pos(cp) == CHOOSE i \in DOMAIN CodePointOrder : CodePointOrder[i] = cp

BasicLatinOf(ud) ==
    {cp \in DOMAIN ud : "block" \in DOMAIN ud[cp] /\ ud[cp].block = "Basic Latin"}

\* the records of Basic Latin with fewer than TestLimit such records before
\* them in code-point order
FirstBasicLatin(ud) ==
    {cp \in BasicLatinOf(ud) :
        Cardinality({q \in BasicLatinOf(ud) : Pos(q) < Pos(cp)}) < TestLimit}

\* C14: the 'test' dataset is the first min(50, n) of the n Basic Latin
\* records in ascending code-point order, with the alias entries of those
\* records and no other.
C14_TestDatasetPrefix ==
    (FilterReturned /\ fn.request.kind = "dataset" /\ fn.request.dataset = DATASET_TEST) =>
        /\ fn.ret.unicode_data = Restrict(fn.unicode_data, FirstBasicLatin(fn.unicode_data))
        /\ fn.ret.aliases_data =
             Restrict(fn.aliases_data,
                      FirstBasicLatin(fn.unicode_data) \cap DOMAIN fn.aliases_data)

\* more than fifty Basic Latin records: fifty are returned, and the alias
\* entry of a record beyond the fiftieth is not
C14_Witness ==
    /\ FilterReturned
    /\ fn.request.kind = "dataset"
    /\ fn.request.dataset = DATASET_TEST
    /\ Cardinality(BasicLatinOf(fn.unicode_data)) > TestLimit
    /\ Cardinality(DOMAIN fn.ret.unicode_data) = TestLimit
    /\ DOMAIN fn.ret.aliases_data # {}
    /\ DOMAIN fn.ret.aliases_data # DOMAIN fn.aliases_data

MergeReturned == fn.op = "merge" /\ fn.stage = "returned" /\ ~fn.exc

\* what the parser of an enabled alias source returned
ParsedOf(src) ==
    IF src \notin config.alias_sources THEN EmptyMap
    ELSE CASE src = ALIAS_SOURCE_FORMAL ->
                parse_name_aliases(disk, PathOf(file_paths, "name_aliases"))
           [] src = ALIAS_SOURCE_INFORMATIVE ->
                parse_names_list(disk, PathOf(file_paths, "names_list"))
           [] src = ALIAS_SOURCE_CLDR ->
                parse_cldr_annotations(disk, PathOf(file_paths, "cldr_annotations"))

AliasSources == {ALIAS_SOURCE_FORMAL, ALIAS_SOURCE_INFORMATIVE, ALIAS_SOURCE_CLDR}

\* the code point a hexadecimal key denotes
CodePointOf(key) == IF key \in {"0041", "41"} THEN 65 ELSE 233

\* an alias up to case and surrounding whitespace
Folded(a) ==
    CASE a \in {" Latin Letter A ", "LATIN LETTER A", "Latin Letter A"} -> "latin letter a"
      [] a \in {"E ACUTE", "E Acute"} -> "e acute"
      [] OTHER -> a

LowerTrimmed == {"a", "e acute", "first letter", "latin letter a", "letter"}

AliasPos(a) == CHOOSE i \in DOMAIN AliasOrder : AliasOrder[i] = a

\* every alias list is strictly ascending and holds lower-cased, trimmed
\* entries only
ListsNormal(ad) ==
    \A k \in DOMAIN ad :
        /\ \A i \in DOMAIN ad[k].v : ad[k].v[i] \in LowerTrimmed
        /\ \A i, j \in DOMAIN ad[k].v : i < j => AliasPos(ad[k].v[i]) < AliasPos(ad[k].v[j])

\* the sources that report an alias equal to n, up to case and whitespace,
\* for code point c
ContributorsOf(c, n) ==
    {src \in AliasSources :
        \E k \in DOMAIN ParsedOf(src) :
            CodePointOf(k) = c /\ \E a \in Range(ParsedOf(src)[k]) : Folded(a) = n}

\* where n stands in the lists of code point c
OccurrencesOf(ad, c, n) ==
    {<<k, i>> \in (DOMAIN ad) \X (1..Len(AliasOrder)) :
        CodePointOf(k) = c /\ i \in DOMAIN ad[k].v /\ ad[k].v[i] = n}

\* C15: every returned alias list is sorted, without duplicates, lower-cased
\* and trimmed, and an alias that two enabled sources report for one code
\* point, equal up to case and surrounding whitespace, stands exactly once
\* in the list of that code point.
C15_AliasListsNormalized ==
    MergeReturned =>
        /\ ListsNormal(dataset.aliases_data.m)
        /\ \A c \in {65, 233}, n \in LowerTrimmed :
              Cardinality(ContributorsOf(c, n)) >= 2 =>
                 Cardinality(OccurrencesOf(dataset.aliases_data.m, c, n)) = 1

\* C16: every merged alias set is kept under the upper-cased code point,
\* whichever enabled source reported it: each reported alias is found,
\* normalized, in the list under the upper-case key, and no other key exists.
C16_UpperCaseKeys ==
    MergeReturned =>
        /\ \A k \in DOMAIN dataset.aliases_data.m : Upper(k) = k
        /\ \A src \in AliasSources :
              \A k \in DOMAIN ParsedOf(src) :
                 /\ Upper(k) \in DOMAIN dataset.aliases_data.m
                 /\ \A a \in Range(ParsedOf(src)[k]) :
                       Folded(a) \in Range(dataset.aliases_data.m[Upper(k)].v)

\* C17: an annotation is keyed as the record of its character is, so the
\* annotations of a character that has a record are merged under the key of
\* that record.
C17_CldrKeyMatchesRecord ==
    (MergeReturned /\ ALIAS_SOURCE_CLDR \in config.alias_sources) =>
        \A cp \in DOMAIN dataset.unicode_data.m :
            LET k == FormatX(dataset.unicode_data.m[cp].char_obj)
            IN  k \in DOMAIN ParsedOf(ALIAS_SOURCE_CLDR) =>
                  /\ k = cp
                  /\ cp \in DOMAIN dataset.aliases_data.m
                  /\ \A a \in Range(ParsedOf(ALIAS_SOURCE_CLDR)[k]) :
                        Folded(a) \in Range(dataset.aliases_data.m[cp].v)

ExportDataReturned == fn.op = "export_data" /\ fn.stage = "returned"

\* the records export_data is left with once it has applied its filter
FilteredRecords ==
    IF ~Truthy(dataset.unicode_data) THEN {}
    ELSE IF fn.options.dataset # ""
    THEN DOMAIN filter_by_dataset(dataset.unicode_data.m, EmptyMap, fn.options.dataset).unicode_data
    ELSE IF fn.options.unicode_blocks # <<>>
    THEN DOMAIN filter_by_unicode_blocks(dataset.unicode_data.m, EmptyMap,
                                         fn.options.unicode_blocks).unicode_data
    ELSE DOMAIN dataset.unicode_data.m

\* C18: a dataset without records, on entry or once filtered, makes
\* export_data raise an error that says so, and the output directory is not
\* created and no file is written.
C18_EmptyDatasetRejected ==
    (ExportDataReturned /\ FilteredRecords = {}) =>
        /\ fn.ret.exc
        /\ fn.ret.msg \in {"No data to export", "No output files generated"}
        /\ ~fn.ret.makedirs
        /\ fn.ret.files = <<>>
        /\ fn.dir_exists = fn.dir_before

\* records that the requested blocks exclude, and no output directory yet
C18_Witness ==
    /\ ExportDataReturned
    /\ Truthy(dataset.unicode_data)
    /\ Truthy(dataset.aliases_data)
    /\ FilteredRecords = {}
    /\ fn.ret.msg = "No output files generated"
    /\ fn.options.output_dir_ok
    /\ ~fn.dir_before
    /\ ~fn.dir_exists

ExportEnded == fn.op = "optimized_export" /\ fn.at \in {"raised", "returned"}

\* the name an export leaves a format under
FinalName(fmt, options) ==
    IF options.compress THEN Compressed(get_output_filename(fmt, options.dataset))
    ELSE get_output_filename(fmt, options.dataset)

PartialContent(fmt, c) == ~c.rec \/ (fmt \in Bracketed /\ ~c.post)

\* C21: without compression a format is written under a temporary name
\* that is not its final name, and the file at the final name never holds
\* partially written content.
C21_FinalNameNeverPartial ==
    (fn.op = "optimized_export" /\ ~fn.options.compress) =>
        \A f \in fn.temp :
            /\ TempName(f, fn.options) # get_output_filename(f, fn.options.dataset)
            /\ get_output_filename(f, fn.options.dataset) \in DOMAIN fn.files =>
                 ~PartialContent(f, fn.files[get_output_filename(f, fn.options.dataset)])

\* a step of a compressing export that removes the temporary file of f
TempRemoved(f) ==
    /\ fn.op = "optimized_export"
    /\ fn.options.compress
    /\ TempName(f, fn.options) \in DOMAIN fn.files
    /\ TempName(f, fn.options) \notin DOMAIN fn'.files

CompressedReturned ==
    fn.op = "optimized_export" /\ fn.options.compress /\ fn.at = "returned"

LargestAliasCount ==
    MaxOf({Len(fn.aliases_data[cp]) : cp \in DOMAIN fn.unicode_data \cap DOMAIN fn.aliases_data})

VerifyCalls(name) == Cardinality({k \in DOMAIN fn.verified : fn.verified[k] = name})

WithPreamble == Bracketed \cup {"csv"}

FilterReached ==
    ExportDataReturned /\ Truthy(dataset.unicode_data) /\ Truthy(dataset.aliases_data)

DatasetRecords ==
    DOMAIN filter_by_dataset(dataset.unicode_data.m, dataset.aliases_data.m,
                             fn.options.dataset).unicode_data

BlockRecords ==
    DOMAIN filter_by_unicode_blocks(dataset.unicode_data.m, dataset.aliases_data.m,
                                    fn.options.unicode_blocks).unicode_data

Passed(line) == line.lead \in {"", "@", ";"}

\* an indented "=" line, or an indented "*" line whose note is shorter than
\* 50 characters and has no parenthesis
Contributing(line) ==
    /\ line.indented
    /\ \/ line.lead = "="
       \/ line.lead = "*" /\ line.len < 50 /\ line.paren \notin {"(", ")"}

\* the non-indented lines before line k that the parser does not pass over
HeadersBefore(k) ==
    {j \in 1..(k - 1) : ~Passed(fn.lines[j]) /\ ~fn.lines[j].indented}

\* the code point line k is attributed to: that of the last non-indented
\* line before it, when there is one and it has a second field
OwnerOf(k) ==
    LET hs == HeadersBefore(k)
        j == CHOOSE h \in hs : \A g \in hs : g <= h
    IN  IF hs = {} \/ fn.lines[j].fields # 2 THEN <<>>
        ELSE <<Upper(fn.lines[j].first)>>

\* the aliases of code point cp after n lines: the texts of its contributing
\* lines, in their order
RECURSIVE AttributedTo(_, _)
AttributedTo(cp, n) ==
    IF n = 0 THEN <<>>
    ELSE IF ~Passed(fn.lines[n]) /\ Contributing(fn.lines[n]) /\ OwnerOf(n) = <<cp>>
    THEN Append(AttributedTo(cp, n - 1), fn.lines[n].text)
    ELSE AttributedTo(cp, n - 1)

Attribution(n) ==
    LET cps == {Upper(fn.lines[j].first) : j \in 1..n}
        owned == {cp \in cps : AttributedTo(cp, n) # <<>>}
    IN  [cp \in owned |-> AttributedTo(cp, n)]

Finalised ==
    IF fn.at = "finalise" THEN {fn.formats[k] : k \in 1..(fn.i - 1)} ELSE {}

\* C28: while optimized_export still has a preamble, a record or a closing
\* to write to a format, that format's handle is open: a handle is closed
\* only once the format's closing has been written.
C28_HandlesOpenWhileWriting ==
    (fn.op = "optimized_export" /\ fn.at \in {"open", "header", "records", "finalise"}) =>
        \A f \in DOMAIN fn.handles : fn.handles[f] = "closed" => f \in Finalised

\* C29: when process_unicode_data has returned, with success or with a
\* failure, the display it started has been stopped: no update thread is
\* left running.
C29_DisplayStoppedOnReturn ==
    pc = "returned" => thread = 0

====
